---------------------------- MODULE Spec2Model ----------------------------
(***************************************************************************)
(* Model of the aerogel overlay (src/src/overlay.rs): the AppState of the  *)
(* Wayland layer-surface client, its protocol event handlers, the poll     *)
(* loop's file checks, and the pure text pipeline (markdown segmentation,  *)
(* tokenization, line wrapping, height measurement).                       *)
(*                                                                         *)
(* Text is a sequence of one-character strings.  Pixel quantities that the *)
(* code keeps in f32/f64 are integers here; every value the model feeds in *)
(* is exactly representable, so the arithmetic agrees with the code's.     *)
(***************************************************************************)
EXTENDS Integers, Sequences, FiniteSets, TLC

(***************************************************************************)
(* Small arithmetic and sequence helpers (Rust std equivalents).           *)
(***************************************************************************)
Min(a, b) == IF a <= b THEN a ELSE b

Max(a, b) == IF a >= b THEN a ELSE b

\* Option<T>: None is the empty tuple and Some(v) the tuple of v.
None == <<>>

Some(v) == <<v>>

Unwrap(o) == o[1]

NL == "\n"

\* The character U+0060 that makes a code fence.
Backtick == "bt"

IsWhitespace(c) == c \in {" ", NL, "\r"}

RECURSIVE Flatten(_)
Flatten(ss) == IF ss = <<>> THEN <<>> ELSE Head(ss) \o Flatten(Tail(ss))

RECURSIVE SumSeq(_)
SumSeq(ns) == IF ns = <<>> THEN 0 ELSE Head(ns) + SumSeq(Tail(ns))

\* str::trim_end
RECURSIVE TrimEnd(_)
TrimEnd(s) ==
    IF s # <<>> /\ IsWhitespace(s[Len(s)])
    THEN TrimEnd(SubSeq(s, 1, Len(s) - 1))
    ELSE s

\* str::trim_start
RECURSIVE TrimStart(_)
TrimStart(s) ==
    IF s # <<>> /\ IsWhitespace(Head(s)) THEN TrimStart(Tail(s)) ELSE s

\* str::trim
Trim(s) == TrimStart(TrimEnd(s))

\* str::trim_end_matches(c)
RECURSIVE TrimEndMatches(_, _)
TrimEndMatches(s, c) ==
    IF s # <<>> /\ s[Len(s)] = c
    THEN TrimEndMatches(SubSeq(s, 1, Len(s) - 1), c)
    ELSE s

\* str::ends_with("\n\n")
EndsWithBlankLine(s) ==
    Len(s) >= 2 /\ s[Len(s)] = NL /\ s[Len(s) - 1] = NL

\* The source lines of a text with their terminators: each element is
\* [s |-> the line without its terminator, nl |-> whether "\n" ended it].
RECURSIVE SplitLines(_, _)
SplitLines(s, cur) ==
    IF s = <<>>
    THEN IF cur = <<>> THEN <<>> ELSE <<[s |-> cur, nl |-> FALSE]>>
    ELSE IF Head(s) = NL
         THEN <<[s |-> cur, nl |-> TRUE]>> \o SplitLines(Tail(s), <<>>)
         ELSE SplitLines(Tail(s), Append(cur, Head(s)))

\* str::lines(): the lines without terminators; a final empty line is dropped.
StrLines(s) ==
    LET ls == SplitLines(s, <<>>)
    IN  [i \in 1..Len(ls) |-> ls[i].s]

(***************************************************************************)
(* pulldown_cmark::Parser as parse_markdown uses it (overlay.rs:837, 844): *)
(* the event stream of a document made of paragraphs, blank lines, ATX     *)
(* headings and backtick-fenced code blocks.  Documents of the model hold  *)
(* no other construct (no inline spans, lists, quotes, setext underlines,  *)
(* indented code or escapes), so these rules are the whole of CommonMark's *)
(* block and break rules that apply to them.                               *)
(***************************************************************************)
RECURSIVE CountLeading(_, _)
CountLeading(s, c) ==
    IF s # <<>> /\ Head(s) = c THEN 1 + CountLeading(Tail(s), c) ELSE 0

Drop(s, n) == SubSeq(s, n + 1, Len(s))

Indent(l) == CountLeading(l, " ")

IsBlankLine(l) == Trim(l) = <<>>

FenceRun(l) == CountLeading(Drop(l, Indent(l)), Backtick)

FenceInfo(l) == Trim(Drop(l, Indent(l) + FenceRun(l)))

IsFenceOpen(l) ==
    /\ Indent(l) <= 3
    /\ FenceRun(l) >= 3
    /\ \A i \in DOMAIN FenceInfo(l) : FenceInfo(l)[i] # Backtick

IsFenceClose(l, n) ==
    /\ Indent(l) <= 3
    /\ FenceRun(l) >= n
    /\ FenceInfo(l) = <<>>

HashRun(l) == CountLeading(Drop(l, Indent(l)), "#")

IsHeading(l) ==
    LET rest == Drop(l, Indent(l) + HashRun(l))
    IN  /\ Indent(l) <= 3
        /\ HashRun(l) \in 1..6
        /\ (rest = <<>> \/ Head(rest) = " ")

\* The heading's inline content: surrounding spaces and an optional closing
\* sequence of #s are removed.
HeadingText(l) ==
    LET t  == Trim(Drop(l, Indent(l) + HashRun(l)))
        t2 == TrimEndMatches(t, "#")
    IN  IF t2 = <<>> \/ t2[Len(t2)] = " " THEN Trim(t2) ELSE t

\* A line that continues an open paragraph.
IsParagraphLine(l) == ~IsBlankLine(l) /\ ~IsFenceOpen(l) /\ ~IsHeading(l)

Ev(t, s) == [t |-> t, s |-> s]

\* mode: "none" (between blocks), "para" (inside a paragraph), "code" (inside
\* a fenced code block opened by a fence of `fence` backticks).
RECURSIVE PdEvents(_, _, _)
PdEvents(lines, mode, fence) ==
    IF lines = <<>>
    THEN IF mode = "code" THEN <<Ev("EndCodeBlock", <<>>)>> ELSE <<>>
    ELSE
    LET l    == Head(lines).s
        rest == Tail(lines)
        more == rest # <<>> /\ IsParagraphLine(Head(rest).s)
    IN  IF mode = "code"
        THEN IF IsFenceClose(l, fence)
             THEN <<Ev("EndCodeBlock", <<>>)>> \o PdEvents(rest, "none", 0)
             ELSE <<Ev("Text", IF Head(lines).nl THEN Append(l, NL) ELSE l)>>
                  \o PdEvents(rest, "code", fence)
        ELSE IF IsBlankLine(l)
        THEN PdEvents(rest, "none", 0)
        ELSE IF IsFenceOpen(l)
        THEN <<Ev("StartCodeBlockFenced", FenceInfo(l))>>
             \o PdEvents(rest, "code", FenceRun(l))
        ELSE IF IsHeading(l)
        THEN <<Ev("StartHeading", <<>>)>>
             \o (IF HeadingText(l) = <<>> THEN <<>>
                 ELSE <<Ev("Text", HeadingText(l))>>)
             \o <<Ev("EndHeading", <<>>)>>
             \o PdEvents(rest, "none", 0)
        ELSE (IF mode = "para" THEN <<>> ELSE <<Ev("StartParagraph", <<>>)>>)
             \o <<Ev("Text", Trim(l))>>
             \o (IF ~more THEN <<Ev("EndParagraph", <<>>)>>
                 ELSE IF Len(l) >= 2 /\ l[Len(l)] = " " /\ l[Len(l) - 1] = " "
                      THEN <<Ev("HardBreak", <<>>)>>
                      ELSE <<Ev("SoftBreak", <<>>)>>)
             \o PdEvents(rest, IF more THEN "para" ELSE "none", 0)

Parser(text) == PdEvents(SplitLines(text, <<>>), "none", 0)

(***************************************************************************)
(* parse_markdown (overlay.rs:835-903).                                    *)
(***************************************************************************)
TextBlock(body) == [kind |-> "Text", lang |-> <<>>, body |-> body]

CodeBlock(lang, body) == [kind |-> "Code", lang |-> lang, body |-> body]

TxtLang == <<"t", "x", "t">>

ParseInit ==
    [blocks |-> <<>>, current_text |-> <<>>, current_code |-> <<>>,
     current_lang |-> <<>>, in_code_block |-> FALSE]

\* An End(CodeBlock) that emitted no block for the body collected so far.
EndCodeBlockDropsBody(st) == st.blocks

\* The blocks after End(CodeBlock) (overlay.rs:862-868).
EndCodeBlockBlocks(st) ==
    IF st.current_code # <<>>
    THEN Append(st.blocks, CodeBlock(st.current_lang, st.current_code))
    ELSE st.blocks

\* One iteration of `for event in parser` (the match on the event).
ParseStep(st, e) ==
    CASE e.t = "StartCodeBlockFenced" \/ e.t = "StartCodeBlockIndented" ->
            [st EXCEPT
               !.blocks =
                   IF Trim(st.current_text) # <<>>
                   THEN Append(@, TextBlock(TrimEnd(st.current_text)))
                   ELSE IF st.current_text # <<>>
                        THEN Append(@, TextBlock(st.current_text))
                        ELSE @,
               !.current_text = <<>>,
               !.in_code_block = TRUE,
               !.current_lang =
                   IF e.t = "StartCodeBlockFenced" THEN e.s ELSE TxtLang]
      [] e.t = "EndCodeBlock" ->
            [st EXCEPT
               !.blocks = EndCodeBlockBlocks(st),
               !.current_code = <<>>,
               !.in_code_block = FALSE]
      [] e.t = "Text" ->
            IF st.in_code_block
            THEN [st EXCEPT !.current_code = @ \o e.s]
            ELSE [st EXCEPT !.current_text = @ \o e.s]
      [] e.t = "SoftBreak" ->
            IF ~st.in_code_block
            THEN [st EXCEPT !.current_text = Append(@, " ")]
            ELSE st
      [] e.t = "HardBreak" ->
            IF ~st.in_code_block
            THEN [st EXCEPT !.current_text = Append(@, NL)]
            ELSE st
      [] e.t = "EndParagraph" ->
            IF ~st.in_code_block /\ ~EndsWithBlankLine(st.current_text)
            THEN [st EXCEPT !.current_text = @ \o <<NL, NL>>]
            ELSE st
      [] OTHER -> st

RECURSIVE ParseFold(_, _)
ParseFold(st, events) ==
    IF events = <<>> THEN st
    ELSE ParseFold(ParseStep(st, Head(events)), Tail(events))

\* The final flush after the loop (overlay.rs:897-900).
ParseFlush(st) ==
    IF st.current_text # <<>>
    THEN Append(st.blocks, TextBlock(st.current_text))
    ELSE st.blocks

parse_markdown(text) == ParseFlush(ParseFold(ParseInit, Parser(text)))

(***************************************************************************)
(* Glyph metrics (rusttype) at the configured scale, in pixels.            *)
(***************************************************************************)
\* A character whose glyph has no advance (a combining mark such as U+0301).
ZeroWidth == "zw"

\* v_metrics.ascent + (-v_metrics.descent) + v_metrics.line_gap
LineHeight == 20

\* v_metrics.ascent
FontAscent == 15

\* glyph.unpositioned().h_metrics().advance_width
GlyphAdvance(c) ==
    CASE c = ZeroWidth -> 0
      [] c = " " -> 5
      [] OTHER -> 10

\* measure_text_width (overlay.rs:1419-1428)
RECURSIVE measure_text_width(_)
measure_text_width(text) ==
    IF text = <<>> THEN 0
    ELSE GlyphAdvance(Head(text)) + measure_text_width(Tail(text))

(***************************************************************************)
(* split_segment_into_tokens (overlay.rs:1166-1199).                       *)
(***************************************************************************)
RECURSIVE SplitTokensLoop(_, _, _, _)
SplitTokensLoop(chars, current_token, in_whitespace, tokens) ==
    IF chars = <<>>
    THEN IF current_token # <<>> THEN Append(tokens, current_token) ELSE tokens
    ELSE
    LET c == Head(chars)
        char_is_whitespace == IsWhitespace(c)
    IN  IF current_token = <<>>
        THEN SplitTokensLoop(Tail(chars), <<c>>, char_is_whitespace, tokens)
        ELSE IF char_is_whitespace = in_whitespace
        THEN SplitTokensLoop(Tail(chars), Append(current_token, c),
                             in_whitespace, tokens)
        ELSE SplitTokensLoop(Tail(chars), <<c>>, char_is_whitespace,
                             Append(tokens, current_token))

\* A tokenizer that makes every character a token of its own.
SplitIntoChars(s) == [i \in 1..Len(s) |-> <<s[i]>>]

split_segment_into_tokens(s) ==
    SplitTokensLoop(s, <<>>, s # <<>> /\ IsWhitespace(Head(s)), <<>>)

(***************************************************************************)
(* wrap_line_with_syntax (overlay.rs:1370-1417).  A range and a token are  *)
(* [style, text]; a wrapped line is a sequence of tokens.                  *)
(***************************************************************************)
Styled(style, text) == [style |-> style, text |-> text]

WrapInit ==
    [wrapped_lines |-> <<>>, current_line_segments |-> <<>>,
     current_line_pixel_width |-> 0]

\* A line-break test that never breaks.
WrapNeverOverflows(current_line_pixel_width, token_pixel_width, max_width) ==
    FALSE

\* The line-break test of the inner loop (overlay.rs:1393-1394).
WrapOverflows(current_line_pixel_width, token_pixel_width, max_width) ==
    /\ current_line_pixel_width + token_pixel_width > max_width
    /\ current_line_pixel_width > 0

\* A wrap that leaves out the whitespace token a line break falls on.
WrapTokenTrimmingBreak(w, style, token, max_width) ==
    LET token_pixel_width == measure_text_width(token)
        brk == WrapOverflows(w.current_line_pixel_width, token_pixel_width,
                             max_width)
        dropped == brk /\ IsWhitespace(Head(token))
    IN  [wrapped_lines |->
             IF brk THEN Append(w.wrapped_lines, w.current_line_segments)
             ELSE w.wrapped_lines,
         current_line_segments |->
             IF dropped THEN <<>>
             ELSE Append(IF brk THEN <<>> ELSE w.current_line_segments,
                         Styled(style, token)),
         current_line_pixel_width |->
             IF dropped THEN 0
             ELSE (IF brk THEN 0 ELSE w.current_line_pixel_width)
                  + token_pixel_width]

\* The body of `for token in tokens`.
WrapToken(w, style, token, max_width) ==
    LET token_pixel_width == measure_text_width(token)
        brk == WrapOverflows(w.current_line_pixel_width, token_pixel_width,
                             max_width)
    IN  [wrapped_lines |->
             IF brk THEN Append(w.wrapped_lines, w.current_line_segments)
             ELSE w.wrapped_lines,
         current_line_segments |->
             Append(IF brk THEN <<>> ELSE w.current_line_segments,
                    Styled(style, token)),
         current_line_pixel_width |->
             (IF brk THEN 0 ELSE w.current_line_pixel_width)
             + token_pixel_width]

RECURSIVE WrapTokens(_, _, _, _)
WrapTokens(w, style, tokens, max_width) ==
    IF tokens = <<>> THEN w
    ELSE WrapTokens(WrapToken(w, style, Head(tokens), max_width),
                    style, Tail(tokens), max_width)

\* The body of `for (style, text_segment) in ranges`.
RECURSIVE WrapRanges(_, _, _)
WrapRanges(w, ranges, max_width) ==
    IF ranges = <<>> THEN w
    ELSE
    LET r == Head(ranges)
        clean_segment == TrimEndMatches(TrimEndMatches(r.text, NL), "\r")
    IN  IF clean_segment = <<>>
        THEN WrapRanges(w, Tail(ranges), max_width)
        ELSE WrapRanges(
                 WrapTokens(w, r.style,
                            split_segment_into_tokens(clean_segment),
                            max_width),
                 Tail(ranges), max_width)

\* A wrap that returns no line when no token was placed.
WrapLineNoEmptyLine(ranges, max_width) ==
    LET w  == WrapRanges(WrapInit, ranges, max_width)
    IN  IF w.current_line_segments # <<>>
        THEN Append(w.wrapped_lines, w.current_line_segments)
        ELSE w.wrapped_lines

wrap_line_with_syntax(ranges, max_width) ==
    LET w  == WrapRanges(WrapInit, ranges, max_width)
        ls == IF w.current_line_segments # <<>>
              THEN Append(w.wrapped_lines, w.current_line_segments)
              ELSE w.wrapped_lines
    IN  IF ls = <<>> THEN << <<>> >> ELSE ls

(***************************************************************************)
(* Height measurement (overlay.rs:1462-1530).                              *)
(***************************************************************************)
\* HighlightLines::highlight_line with the grammar find_syntax_by_token
\* resolves, falling back to plain text: the model's grammars give a line
\* one range in the style of its language.
highlight_line(line_with_newline, lang) ==
    << Styled(lang, line_with_newline) >>

TextMargin == 18

LineNumberWidth == 40

TopMargin == 40

BlockPadding == 15

BottomMargin == 20

max_line_width(width, is_code_block) ==
    width - (IF is_code_block THEN TextMargin + LineNumberWidth
             ELSE TextMargin) - TextMargin

\* The wrapped lines of the source lines of one block, in order.
BlockWrappedLines(text, width, lang, is_code_block) ==
    LET lines == StrLines(text)
    IN  [i \in 1..Len(lines) |->
            wrap_line_with_syntax(
                highlight_line(Append(lines[i], NL), lang),
                max_line_width(width, is_code_block))]

_calculate_block_height(text, width, lang, is_code_block) ==
    LET wrapped == BlockWrappedLines(text, width, lang, is_code_block)
    IN  FontAscent
        + SumSeq([i \in 1..Len(wrapped) |-> Len(wrapped[i]) * LineHeight])

calculate_text_height(text, width) ==
    LET blocks == parse_markdown(text)
    IN  TopMargin
        + SumSeq([i \in 1..Len(blocks) |->
              _calculate_block_height(
                  blocks[i].body, width,
                  IF blocks[i].kind = "Code" THEN blocks[i].lang ELSE TxtLang,
                  blocks[i].kind = "Code")
              + BlockPadding])
        + BottomMargin

(***************************************************************************)
(* The layout pass of the renderer (overlay.rs:1125-1162, 1201-1368): the  *)
(* vertical positions only, with the tests that stop drawing below the     *)
(* buffer.  A position is [y_offset, drawn]: the baseline cursor and the   *)
(* number of wrapped lines laid out so far.                                *)
(***************************************************************************)
\* A renderer wrap width that leaves no room for the line numbers.
RenderWidthWithoutNumbers(width, is_code_block) ==
    width - TextMargin - TextMargin

\* max_line_width of _render_block (overlay.rs:1225-1235)
RenderMaxLineWidth(width, is_code_block) ==
    width - (IF is_code_block THEN TextMargin + LineNumberWidth
             ELSE TextMargin) - TextMargin

\* `for wrapped_line in wrapped_lines` with n lines left
\* (overlay.rs:1311-1365).
RECURSIVE RenderWrappedLines(_, _, _)
RenderWrappedLines(pos, n, height) ==
    IF n = 0 \/ pos.y_offset > height THEN pos
    ELSE RenderWrappedLines([y_offset |-> pos.y_offset + LineHeight,
                             drawn |-> pos.drawn + 1],
                            n - 1, height)

\* `for (line_idx, line) in lines.iter().enumerate()` from the line at
\* index idx on (overlay.rs:1244-1366).
RECURSIVE RenderLines(_, _, _, _, _, _, _)
RenderLines(lines, idx, pos, width, height, lang, is_code_block) ==
    IF idx > Len(lines) THEN pos
    ELSE IF pos.y_offset > height + LineHeight /\ idx > 1 THEN pos
    ELSE RenderLines(
             lines, idx + 1,
             RenderWrappedLines(
                 pos,
                 Len(wrap_line_with_syntax(
                         highlight_line(Append(lines[idx], NL), lang),
                         RenderMaxLineWidth(width, is_code_block))),
                 height),
             width, height, lang, is_code_block)

\* _render_block (overlay.rs:1201-1368); the code returns y_offset.
_render_block(text, width, height, y_cursor, lang, is_code_block) ==
    RenderLines(StrLines(text), 1,
                [y_offset |-> y_cursor + FontAscent, drawn |-> 0],
                width, height, lang, is_code_block)

\* `for block in blocks.iter()` of render_text (overlay.rs:1138-1161): the
\* cursor and the lines laid out per block.
RECURSIVE RenderBlocks(_, _, _, _, _)
RenderBlocks(blocks, y_cursor, lines, width, height) ==
    IF blocks = <<>> \/ y_cursor > height
    THEN [y_cursor |-> y_cursor, lines |-> lines]
    ELSE LET block == Head(blocks)
             pos == _render_block(
                        block.body, width, height, y_cursor,
                        IF block.kind = "Code" THEN block.lang ELSE TxtLang,
                        block.kind = "Code")
         IN  RenderBlocks(Tail(blocks), pos.y_offset + BlockPadding,
                          Append(lines, pos.drawn), width, height)

\* render_text (overlay.rs:1125-1162)
render_text(text, width, height, scroll_offset) ==
    RenderBlocks(parse_markdown(text), TopMargin - scroll_offset, <<>>,
                 width, height)

(***************************************************************************)
(* Configuration (aerogel.toml, read once through CONFIG) and the values   *)
(* the environment supplies.                                               *)
(***************************************************************************)
\* CONFIG.app.width
ConfigWidth == 600

\* CONFIG.app.max_height
ConfigMaxHeight == 150

\* CONFIG.app.scroll_speed
ConfigScrollSpeed == 3

\* One pixel in wl_fixed_t (24.8 fixed point), the unit of surface_x/y and
\* of axis values on the wire.
FixedOne == 256

\* A file: whether it exists (and can be read) and what it holds.
Missing == [exists |-> FALSE, data |-> <<>>]

File(data) == [exists |-> TRUE, data |-> data]

\* get_default_text(): a heading and a fenced listing of the key bindings.
DefaultText ==
    <<"#", " ", "K", NL,
      Backtick, Backtick, Backtick, NL,
      "S", " ", "h", NL,
      Backtick, Backtick, Backtick>>

DocShort == <<"a">>

DocLong == <<"a", NL, NL, "a">>

DocOther == <<"b", " ", "b", NL, NL, "b">>

\* Workspaces with a text file of their own.
Workspaces == {1, 2}

\* What the text file of workspace n (.tmpN) may hold.
TextFileContents(n) ==
    IF n = 1 THEN {Missing, File(DocShort), File(DocLong)}
    ELSE {Missing, File(DocOther)}

\* Text files that hold no text: empty, or whitespace only.
BlankTextFiles == {File(<<>>), File(<<" ", NL>>)}

AllTextFileContents ==
    UNION {TextFileContents(n) : n \in Workspaces} \cup BlankTextFiles

\* What .aerogel_workspace may hold.
WorkspaceFileContents ==
    {Missing, File(<<"0">>), File(<<"1", NL>>), File(<<"2">>)}

\* .aerogel_workspace with contents that name no workspace, and with a
\* signed spelling of one.
WorkspaceFileInputs ==
    WorkspaceFileContents \cup
        {File(<<>>), File(<<" ", NL>>), File(<<"x">>), File(<<"-", "1">>),
         File(<<"+", "2">>)}

\* wl_buffer object ids the client can be handed.
BufferIds == {1, 2}

\* Sizes the compositor may send in a Configure event.
ConfigureSizes == {<<0, 0>>, <<300, 200>>}

\* Modes the compositor may announce for the output.
OutputModes == {<<1920, 1080>>, <<500, 120>>}

\* Axis events: <<the axis is the vertical one, the value in pixels>>.
AxisEvents == {<<TRUE, -30>>, <<TRUE, 30>>, <<FALSE, 30>>}

\* Key events: <<key code, pressed>>.
KeyEvents == {<<1, TRUE>>, <<19, TRUE>>, <<30, TRUE>>, <<1, FALSE>>}

\* Pointer positions (surface-local, wl_fixed_t).
PointerPositions == {<<0, 0>>, <<2688, 384>>, <<512000, 512000>>}

BTN_LEFT == 272

BTN_RIGHT == 273

KEY_ESC == 1

KEY_R == 19

DefaultMargin == 20

DefaultOutputWidth == 1920

DefaultOutputHeight == 1080

(***************************************************************************)
(* The state: the fields of AppState, the files the process shares with    *)
(* its collaborators, and the compositor's view of the surface.            *)
(***************************************************************************)
VARIABLES
    pc,                  \* "connected": AppState::new() done; "running": the
                         \* poll loop; "exited": after Closed
    width, height,       \* AppState.width, .height
    margin_x, margin_y,  \* AppState.margin_x, .margin_y
    visible,             \* AppState.visible
    is_dragging,         \* AppState.drag_state.is_dragging
    start_x, start_y,    \* AppState.drag_state.start_x, .start_y
    pointer_x, pointer_y,\* AppState.pointer_x, .pointer_y
    output_width, output_height,
    text,                \* AppState.text
    current_workspace,   \* AppState.current_workspace
    text_changed,        \* AppState.text_changed
    scroll_offset_y, max_scroll_offset_y,
    surface,             \* AppState.surface and .layer_surface are Some
    current_buffer,      \* AppState.current_buffer: a buffer id, 0 for None
    auto_scroll,         \* CONFIG.app.auto_scroll
    text_files,          \* the files .tmpN, by workspace id
    ws_file,             \* the file .aerogel_workspace
    margin_log,          \* the lines of margin.log
    configured,          \* a Configure event has been acknowledged
    srv_attached,        \* the buffer the surface's committed state holds
    requests,            \* the latest requests a handler sent, in order
    keyboards, pointers, \* the wl_keyboard and wl_pointer objects acquired
    pointer_focus,       \* the seat's pointer is over the overlay's surface
    button_held,         \* the user holds the left button down
    call                 \* a call of a pure function of the text pipeline:
                         \* [fn, args, result], result None until it returns

VARIABLES
    ROUNDTRIP_COUNTER,   \* the static of the poll loop (overlay.rs:1668)
    iteration,           \* iterations of the poll loop completed so far
    roundtrips           \* roundtrips the poll loop has made

\* The event handler process (event_handler.rs, main) and the files it
\* shares with the overlay.
VARIABLES
    eh_running,          \* main has not returned
    eh_current_workspace,\* current_workspace of event_handler.rs
    ai_process_senders,  \* the keys of the HashMap of senders
    ai_managers,         \* manage_ai_process tasks spawned, by workspace
    waiting_for_workspace_number,
    active_modifiers,
    in_recording_mode,
    key_buffer,
    log_snapshot_before_recording,
    write_pending,       \* a tokio::fs::write that has truncated its file
                         \* and not yet written: <<[n, content]>>, or None
    event_log,           \* the bytes of the file .event
    file_pos,            \* read_new_content's last_pos
    reader,              \* read_new_content in progress: its pc, its
                         \* current_len and the lines it has yet to process
    delivered            \* every byte read_new_content has returned

loopVars == <<ROUNDTRIP_COUNTER, iteration, roundtrips>>

handlerVars ==
    <<eh_running, eh_current_workspace, ai_process_senders, ai_managers,
      waiting_for_workspace_number, active_modifiers, in_recording_mode,
      key_buffer, log_snapshot_before_recording, write_pending, event_log,
      file_pos, reader, delivered>>

vars ==
    <<ROUNDTRIP_COUNTER, iteration, roundtrips, eh_running,
      eh_current_workspace, ai_process_senders, ai_managers,
      waiting_for_workspace_number, active_modifiers, in_recording_mode,
      key_buffer, log_snapshot_before_recording, write_pending, event_log,
      file_pos, reader, delivered,
      pc, width, height, margin_x, margin_y, visible, is_dragging, start_x,
      start_y, pointer_x, pointer_y, output_width, output_height, text,
      current_workspace, text_changed, scroll_offset_y, max_scroll_offset_y,
      surface, current_buffer, auto_scroll, text_files, ws_file, margin_log,
      configured, srv_attached, requests, keyboards, pointers,
      pointer_focus, button_held, call>>

\* The fields of AppState, the files and the compositor's view.
appVars ==
    <<pc, width, height, margin_x, margin_y, visible, is_dragging, start_x,
      start_y, pointer_x, pointer_y, output_width, output_height, text,
      current_workspace, text_changed, scroll_offset_y, max_scroll_offset_y,
      surface, current_buffer, auto_scroll, text_files, ws_file, margin_log,
      configured, srv_attached, requests, keyboards, pointers,
      pointer_focus, button_held>>

seatVars == <<keyboards, pointers>>

\* The pointer as the compositor and the user have it.
inputVars == <<pointer_focus, button_held>>

dragVars == <<is_dragging, start_x, start_y, pointer_x, pointer_y>>

marginVars == <<margin_x, margin_y, margin_log>>

outputVars == <<output_width, output_height>>

fileVars == <<text_files, ws_file>>

scrollVars == <<scroll_offset_y, max_scroll_offset_y>>

(***************************************************************************)
(* Files.                                                                  *)
(***************************************************************************)
Digit(c) ==
    CASE c = "0" -> 0 [] c = "1" -> 1 [] c = "2" -> 2 [] c = "3" -> 3
      [] c = "4" -> 4 [] c = "5" -> 5 [] c = "6" -> 6 [] c = "7" -> 7
      [] c = "8" -> 8 [] c = "9" -> 9 [] OTHER -> -1

\* str::parse::<u32>() of a string of decimal digits (None for anything else).
RECURSIVE ParseDigits(_, _)
ParseDigits(s, acc) ==
    IF s = <<>> THEN Some(acc)
    ELSE IF Digit(Head(s)) = -1 THEN None
    ELSE ParseDigits(Tail(s), 10 * acc + Digit(Head(s)))

\* A leading "+" is accepted when digits follow it; a "-" never is.
ParseU32(s) ==
    IF s = <<>> THEN None
    ELSE IF Head(s) = "+"
    THEN IF Tail(s) = <<>> THEN None ELSE ParseDigits(Tail(s), 0)
    ELSE ParseDigits(s, 0)

\* read_current_workspace (overlay.rs:297-301)
read_current_workspace(file) ==
    IF ~file.exists THEN None ELSE ParseU32(Trim(file.data))

\* The content of .tmpN.
TextFile(files, n) == IF n \in DOMAIN files THEN files[n] ELSE Missing

\* load_text_from_log (overlay.rs:375-386)
load_text_from_log(file) ==
    IF ~file.exists THEN None
    ELSE IF Trim(file.data) = <<>> THEN None
    ELSE Some(file.data)

\* A fallback to the empty text instead of the key binding listing.
LoadTextOrEmpty(file) ==
    IF load_text_from_log(file) = None THEN <<>>
    ELSE Unwrap(load_text_from_log(file))

\* load_text_from_log(..).unwrap_or_else(get_default_text)
LoadTextOrDefault(file) ==
    IF load_text_from_log(file) = None THEN DefaultText
    ELSE Unwrap(load_text_from_log(file))

\* The texts AppState.text can hold and the widths it can be laid out at.
Texts == {LoadTextOrDefault(f) : f \in AllTextFileContents}

Widths == {ConfigWidth} \cup {sz[1] : sz \in ConfigureSizes \ {<<0, 0>>}}

\* calculate_text_height over the texts and widths of the model.
HeightTable ==
    [t \in Texts, w \in Widths |-> calculate_text_height(t, w)]

TextHeight(t, w) == HeightTable[t, w]

(***************************************************************************)
(* margin.log: a line is [dragging, x, y]: whether it contains "Dragging:" *)
(* and what its x= and y= fields parse to (None when one does not parse).  *)
(***************************************************************************)
\* str::find: the index of the first occurrence of pat in s, 0 for none.
Find(s, pat) ==
    LET hits == {i \in 1..(Len(s) - Len(pat) + 1) :
                    SubSeq(s, i, i + Len(pat) - 1) = pat}
    IN  IF hits = {} THEN 0 ELSE CHOOSE i \in hits : \A k \in hits : i <= k

DigitChars == <<"0", "1", "2", "3", "4", "5", "6", "7", "8", "9">>

\* Display for i32: decimal digits, "-" before a negative number.
RECURSIVE FormatNat(_)
FormatNat(n) ==
    IF n < 10 THEN <<DigitChars[n + 1]>>
    ELSE FormatNat(n \div 10) \o <<DigitChars[(n % 10) + 1]>>

FormatI32(n) == IF n < 0 THEN <<"-">> \o FormatNat(-n) ELSE FormatNat(n)

\* str::parse::<i32>(): an optional sign, then digits.  The numbers of the
\* model stay far inside i32, so the overflow error never arises.
ParseI32(s) ==
    LET signed == s # <<>> /\ Head(s) \in {"-", "+"}
        digits == IF signed THEN Tail(s) ELSE s
        m == IF digits = <<>> THEN None ELSE ParseDigits(digits, 0)
    IN  IF m = None THEN None
        ELSE IF signed /\ Head(s) = "-" THEN Some(-Unwrap(m))
        ELSE m

\* trim_end_matches(|c: char| !c.is_ascii_digit() && c != '-')
\* (overlay.rs:341-343)
RECURSIVE TrimEndNonNumeric(_)
TrimEndNonNumeric(s) ==
    IF s # <<>> /\ Digit(s[Len(s)]) = -1 /\ s[Len(s)] # "-"
    THEN TrimEndNonNumeric(SubSeq(s, 1, Len(s) - 1))
    ELSE s

DragPrefix == <<"D", "r", "a", "g", "g", "i", "n", "g", ":">>

\* A drag entry written without the comma after the x value.
FormatDragLineNoComma(x, y) ==
    DragPrefix \o <<" ", "x", "=">> \o FormatI32(x)
        \o <<" ", "y", "=">> \o FormatI32(y)

\* writeln!(file, "Dragging: x={}, y={}", ..) (overlay.rs:546)
FormatDragLine(x, y) ==
    DragPrefix \o <<" ", "x", "=">> \o FormatI32(x)
        \o <<",", " ", "y", "=">> \o FormatI32(y)

\* What load_margins_from_log reads in one line of text
\* (overlay.rs:327-346).
ParseLogLine(line) ==
    LET x_start == Find(line, <<"x", "=">>)
        after_x == SubSeq(line, x_start + 2, Len(line))
        x_end == Find(after_x, <<",">>)
        y_start == Find(line, <<"y", "=">>)
        y_str == SubSeq(line, y_start + 2, Len(line))
    IN  [dragging |-> Find(line, DragPrefix) # 0,
         x |-> IF x_start = 0 \/ x_end = 0 THEN None
               ELSE ParseI32(Trim(SubSeq(after_x, 1, x_end - 1))),
         y |-> IF y_start = 0 THEN None
               ELSE ParseI32(TrimEndNonNumeric(Trim(y_str)))]

\* The entry update_drag writes for the margins (x, y), as
\* load_margins_from_log reads it.
LogLine(x, y) == ParseLogLine(FormatDragLine(x, y))

\* The loop of load_margins_from_log (overlay.rs:324-353).
RECURSIVE LoadMarginsLoop(_, _)
LoadMarginsLoop(lines, acc) ==
    IF lines = <<>> THEN acc
    ELSE
    LET line == Head(lines)
    IN  LoadMarginsLoop(Tail(lines),
            IF line.dragging
            THEN [last_margin_x |->
                      IF line.x # None THEN line.x ELSE acc.last_margin_x,
                  last_margin_y |->
                      IF line.y # None THEN line.y ELSE acc.last_margin_y,
                  last_line |-> <<line>>]
            ELSE acc)

LoadMargins(log) ==
    LoadMarginsLoop(log.data, [last_margin_x |-> None, last_margin_y |-> None,
                          last_line |-> <<>>])

\* load_margins_from_log's result (overlay.rs:363-372), None for no pair.
load_margins_from_log(log) ==
    LET r == LoadMargins(log)
    IN  IF log.exists /\ r.last_margin_x # None /\ r.last_margin_y # None
        THEN Some(<<Unwrap(r.last_margin_x), Unwrap(r.last_margin_y)>>)
        ELSE None

\* The file load_margins_from_log leaves behind (overlay.rs:355-360).
CompactedLog(log) ==
    IF ~log.exists THEN Missing ELSE File(LoadMargins(log).last_line)

\* What margin.log may hold when the process starts.
InitialLogs ==
    {Missing, File(<<LogLine(20, 20)>>),
     File(<<LogLine(700, 40), LogLine(1320, 950)>>)}

(***************************************************************************)
(* Requests to the compositor and their effect on the surface.             *)
(***************************************************************************)
Req(op, arg) == [op |-> op, arg |-> arg]

\* wl_surface state is double-buffered: attach sets the pending buffer and
\* commit makes it the surface's buffer.  `st` is [attached, pending], with
\* pending = None when no attach is pending.
ApplyRequest(st, r) ==
    CASE r.op = "attach" -> [st EXCEPT !.pending = r.arg]
      [] r.op = "commit" ->
            [attached |->
                 IF st.pending = None THEN st.attached ELSE Unwrap(st.pending),
             pending |-> None]
      [] OTHER -> st

RECURSIVE ApplyRequests(_, _)
ApplyRequests(st, rs) ==
    IF rs = <<>> THEN st
    ELSE ApplyRequests(ApplyRequest(st, Head(rs)), Tail(rs))

\* The surface's buffer after the requests rs, from the buffer `attached`.
AttachedAfter(attached, rs) ==
    ApplyRequests([attached |-> attached, pending |-> None], rs).attached

\* The id of the next wl_buffer: the least id naming no buffer the client or
\* the surface still refers to.
NewBufferId(cb, attached) ==
    CHOOSE b \in BufferIds :
        /\ b \notin {cb, attached}
        /\ \A c \in BufferIds \ {cb, attached} : b <= c

(***************************************************************************)
(* draw_overlay (overlay.rs:466-499).  ok: create_shm_buffer returned Ok.  *)
(* The result is the new current_buffer and text_changed and the requests  *)
(* sent, as the handler that calls it needs them.                          *)
(***************************************************************************)
\* What create_shm_buffer renders into the buffer: the text, the scroll
\* offset and the workspace number of the chip (overlay.rs:477-489).
Shown(txt, scroll, workspace) == <<txt, scroll, workspace>>

\* The requests of the body of draw_overlay once the surface is known to
\* exist and to be visible (overlay.rs:472-494).
DrawRequests(cb, new, w, h, shown, ok) ==
    (IF cb # 0 THEN <<Req("destroy", <<cb>>)>> ELSE <<>>)
    \o (IF ok
        THEN <<Req("create_buffer", <<new, w, h, shown>>),
               Req("attach", <<new>>),
               Req("damage", <<w, h>>), Req("commit", <<>>)>>
        ELSE <<>>)

\* A draw_overlay without the early return for a hidden overlay.
DrawOverlayAlsoHidden(surf, vis, cb, tc, w, h, shown, attached, ok) ==
    IF surf
    THEN LET new == NewBufferId(cb, attached)
         IN  [current_buffer |-> IF ok THEN new ELSE 0,
              text_changed |-> FALSE,
              reqs |-> DrawRequests(cb, new, w, h, shown, ok)]
    ELSE [current_buffer |-> cb, text_changed |-> FALSE, reqs |-> <<>>]

draw_overlay(surf, vis, cb, tc, w, h, shown, attached, ok) ==
    IF surf /\ ~vis
    THEN [current_buffer |-> cb, text_changed |-> tc, reqs |-> <<>>]
    ELSE IF surf
    THEN LET new == NewBufferId(cb, attached)
         IN  [current_buffer |-> IF ok THEN new ELSE 0,
              text_changed |-> FALSE,
              reqs |-> DrawRequests(cb, new, w, h, shown, ok)]
    ELSE [current_buffer |-> cb, text_changed |-> FALSE, reqs |-> <<>>]

\* force_redraw (overlay.rs:565-568)
force_redraw(surf, vis, cb, w, h, shown, attached, ok) ==
    draw_overlay(surf, vis, cb, TRUE, w, h, shown, attached, ok)

\* What sending the requests rs does to the compositor's view.
Send(rs) ==
    IF rs = <<>>
    THEN UNCHANGED <<requests, srv_attached>>
    ELSE /\ requests' = rs
         /\ srv_attached' = AttachedAfter(srv_attached, rs)

NoCall == [fn |-> "none", args |-> <<>>, result |-> None]

\* The workspaces the event handler can be sent to: one per digit key of
\* the model.
HandlerWorkspaces == {1, 2}

\* The poll loop before its first iteration (overlay.rs:1626-1630, 1668).
LoopNew ==
    /\ ROUNDTRIP_COUNTER = 0
    /\ iteration = 0
    /\ roundtrips = 0

\* The event handler as its main reaches the event loop
\* (event_handler.rs:269-324), .event being empty.
HandlerNew ==
    /\ eh_running = TRUE
    /\ eh_current_workspace = 1
    /\ ai_process_senders = {1}
    /\ ai_managers = [n \in HandlerWorkspaces |-> IF n = 1 THEN 1 ELSE 0]
    /\ waiting_for_workspace_number = FALSE
    /\ active_modifiers = <<>>
    /\ in_recording_mode = FALSE
    /\ key_buffer = <<>>
    /\ log_snapshot_before_recording = <<>>
    /\ write_pending = None
    /\ event_log = <<>>
    /\ file_pos = 0
    /\ reader = [pc |-> "idle", current_len |-> 0, lines |-> <<>>]
    /\ delivered = <<>>

(***************************************************************************)
(* Initial state: AppState::new() (overlay.rs:207-295) has run.            *)
(***************************************************************************)
AppStateNew ==
    /\ pc = "connected"
    /\ auto_scroll \in BOOLEAN
    /\ ws_file \in WorkspaceFileContents \cup {File(<<"1">>)}
    /\ text_files \in
          {f \in [Workspaces -> AllTextFileContents] :
              \A n \in Workspaces :
                  f[n] \in TextFileContents(n) \cup BlankTextFiles}
    /\ \E log \in InitialLogs :
          LET loaded == load_margins_from_log(log)
          IN  /\ margin_log = CompactedLog(log)
              /\ margin_x =
                    IF loaded = None THEN DefaultMargin ELSE Unwrap(loaded)[1]
              /\ margin_y =
                    IF loaded = None THEN DefaultMargin ELSE Unwrap(loaded)[2]
    /\ current_workspace =
          IF read_current_workspace(ws_file) = None THEN 1
          ELSE Unwrap(read_current_workspace(ws_file))
    /\ text = LoadTextOrDefault(TextFile(text_files, current_workspace))
    /\ width = ConfigWidth
    /\ height = Min(TextHeight(text, width), ConfigMaxHeight)
    /\ max_scroll_offset_y = Max(TextHeight(text, width) - height, 0)
    /\ scroll_offset_y = 0
    /\ visible = TRUE
    /\ is_dragging = FALSE
    /\ start_x = 0
    /\ start_y = 0
    /\ pointer_x = 0
    /\ pointer_y = 0
    /\ output_width = DefaultOutputWidth
    /\ output_height = DefaultOutputHeight
    /\ text_changed = FALSE
    /\ surface = FALSE
    /\ current_buffer = 0
    /\ configured = FALSE
    /\ srv_attached = 0
    /\ requests = <<>>
    /\ keyboards = 0
    /\ pointers = 0
    /\ pointer_focus = FALSE
    /\ button_held = FALSE

Init ==
    /\ AppStateNew
    /\ LoopNew
    /\ HandlerNew
    /\ call = NoCall

(***************************************************************************)
(* main: the first roundtrip binds the globals, then create_overlay        *)
(* (overlay.rs:441-464, 1617-1624).                                        *)
(***************************************************************************)
Startup ==
    /\ pc = "connected"
    /\ UNCHANGED <<loopVars, handlerVars, call, seatVars, inputVars>>
    /\ pc' = "running"
    /\ surface' = TRUE
    /\ Send(<<Req("create_surface", <<>>), Req("get_layer_surface", <<>>),
              Req("set_size", <<width, height>>),
              Req("set_margin", <<margin_y, margin_x>>),
              Req("commit", <<>>)>>)
    /\ UNCHANGED <<width, height, marginVars, visible, dragVars, outputVars,
                   text, current_workspace, text_changed, scrollVars,
                   current_buffer, auto_scroll, fileVars, configured>>

(***************************************************************************)
(* The poll loop's file checks (overlay.rs:1632-1651).                     *)
(***************************************************************************)
\* check_for_workspace_switch (overlay.rs:303-313)
\* A switch that kept the scroll offset of the workspace it leaves.
ScrollKeptAcrossSwitch == scroll_offset_y

\* self.scroll_offset_y = 0.0 (overlay.rs:308)
ScrollAfterSwitch == 0

\* A switch to whatever id the file holds, workspace 0 included.
CheckForWorkspaceSwitchToAny(ok) ==
    LET read == read_current_workspace(ws_file)
        new_workspace == Unwrap(read)
    IN  /\ pc = "running"
        /\ UNCHANGED <<loopVars, handlerVars, call, seatVars, inputVars>>
        /\ IF read # None /\ new_workspace # current_workspace
           THEN LET d == force_redraw(surface, visible, current_buffer, width,
                                      height,
                                      Shown(text, ScrollAfterSwitch,
                                            new_workspace),
                                      srv_attached, ok)
                IN  /\ current_workspace' = new_workspace
                    /\ scroll_offset_y' = ScrollAfterSwitch
                    /\ current_buffer' = d.current_buffer
                    /\ text_changed' = d.text_changed
                    /\ Send(d.reqs)
           ELSE UNCHANGED <<current_workspace, scroll_offset_y, current_buffer,
                           text_changed, srv_attached, requests>>
        /\ UNCHANGED <<pc, width, height, marginVars, visible, dragVars,
                       outputVars, text, max_scroll_offset_y, surface,
                       auto_scroll, fileVars, configured>>

CheckForWorkspaceSwitch(ok) ==
    LET read == read_current_workspace(ws_file)
        new_workspace == Unwrap(read)
    IN  /\ pc = "running"
        /\ UNCHANGED <<loopVars, handlerVars, call, seatVars, inputVars>>
        /\ IF read # None /\ new_workspace # current_workspace
              /\ new_workspace > 0
           THEN LET d == force_redraw(surface, visible, current_buffer, width,
                                      height,
                                      Shown(text, ScrollAfterSwitch,
                                            new_workspace),
                                      srv_attached, ok)
                IN  /\ current_workspace' = new_workspace
                    /\ scroll_offset_y' = ScrollAfterSwitch
                    /\ current_buffer' = d.current_buffer
                    /\ text_changed' = d.text_changed
                    /\ Send(d.reqs)
           ELSE UNCHANGED <<current_workspace, scroll_offset_y, current_buffer,
                           text_changed, srv_attached, requests>>
        /\ UNCHANGED <<pc, width, height, marginVars, visible, dragVars,
                       outputVars, text, max_scroll_offset_y, surface,
                       auto_scroll, fileVars, configured>>

\* The file update_text_from_log reads: .tmp{current_workspace}
\* (overlay.rs:394-395).
ActiveTextSource == TextFile(text_files, current_workspace)

\* A text change that leaves the scroll offset as it was.
ScrollKeptOnTextChange(auto, scroll, max_scroll) == scroll

\* The scroll offset update_text_from_log leaves (overlay.rs:421-425).
ScrollAfterTextChange(auto, scroll, max_scroll) ==
    IF auto THEN max_scroll ELSE Min(scroll, max_scroll)

\* The text check: update_text_from_log (overlay.rs:388-439) and, when it
\* reports a change, draw_overlay (overlay.rs:1641-1651).
UpdateTextFromLog(ok) ==
    LET new_text == LoadTextOrDefault(ActiveTextSource)
    IN  /\ pc = "running"
        /\ UNCHANGED <<loopVars, handlerVars, call, seatVars, inputVars>>
        /\ IF new_text # text
           THEN LET calculated_height == TextHeight(new_text, width)
                    new_height == Min(calculated_height, ConfigMaxHeight)
                    new_max == Max(calculated_height - new_height, 0)
                    new_scroll ==
                        ScrollAfterTextChange(auto_scroll, scroll_offset_y,
                                              new_max)
                    d == draw_overlay(surface, visible, current_buffer, TRUE,
                                      width, new_height,
                                      Shown(new_text, new_scroll,
                                            current_workspace),
                                      srv_attached, ok)
                IN  /\ text' = new_text
                    /\ height' = new_height
                    /\ max_scroll_offset_y' = new_max
                    /\ scroll_offset_y' = new_scroll
                    /\ current_buffer' = d.current_buffer
                    /\ text_changed' = d.text_changed
                    /\ Send((IF surface
                             THEN <<Req("set_size", <<width, new_height>>),
                                    Req("commit", <<>>)>>
                             ELSE <<>>) \o d.reqs)
           ELSE UNCHANGED <<text, height, scrollVars, current_buffer,
                           text_changed, srv_attached, requests>>
        /\ UNCHANGED <<pc, width, marginVars, visible, dragVars, outputVars,
                       current_workspace, surface, auto_scroll, fileVars,
                       configured>>

(***************************************************************************)
(* Layer surface events (overlay.rs:626-645).                              *)
(***************************************************************************)
Configure(w, h, ok) ==
    LET new_width == IF w > 0 /\ h > 0 THEN w ELSE width
        new_height == IF w > 0 /\ h > 0 THEN h ELSE height
        d == draw_overlay(surface, visible, current_buffer, text_changed,
                          new_width, new_height,
                          Shown(text, scroll_offset_y, current_workspace),
                          srv_attached, ok)
    IN  /\ pc = "running"
        /\ UNCHANGED <<loopVars, handlerVars, call, seatVars, inputVars>>
        /\ width' = new_width
        /\ height' = new_height
        /\ configured' = TRUE
        /\ current_buffer' = d.current_buffer
        /\ text_changed' = d.text_changed
        /\ Send(<<Req("ack_configure", <<>>)>> \o d.reqs)
        /\ UNCHANGED <<pc, marginVars, visible, dragVars, outputVars, text,
                       current_workspace, scrollVars, surface, auto_scroll,
                       fileVars>>

Closed ==
    /\ pc = "running"
    /\ UNCHANGED <<loopVars, handlerVars, call, seatVars, inputVars>>
    /\ pc' = "exited"
    /\ UNCHANGED <<requests, width, height, marginVars, visible, dragVars, outputVars,
                   text, current_workspace, text_changed, scrollVars, surface,
                   current_buffer, auto_scroll, fileVars, configured,
                   srv_attached>>

(***************************************************************************)
(* Pointer events (overlay.rs:661-725) and the drag (overlay.rs:511-563).  *)
(* The compositor sends pointer and keyboard events only for a surface it  *)
(* has mapped, which takes the first Configure.                            *)
(***************************************************************************)
\* The longest margin.log the model follows.
MaxLogLines == 2

\* `d as i32` for a wl_fixed_t difference: whole pixels, toward zero.
TruncPx(d) == IF d >= 0 THEN d \div FixedOne ELSE -((-d) \div FixedOne)

\* i32::saturating_sub(..).max(0) (overlay.rs:532-533)
MaxMargin(output_dim, overlay_dim) == Max(output_dim - overlay_dim, 0)

\* new_margin.max(0).min(max) (overlay.rs:534-535)
ClampMargin(new_margin, max_margin) == Min(Max(new_margin, 0), max_margin)

\* writeln!(file, "Dragging: x={}, y={}", ..) in append mode
AppendLog(log, x, y) == File(Append(log.data, LogLine(x, y)))

PointerEnter(p) ==
    /\ pc = "running"
    /\ UNCHANGED <<loopVars, handlerVars, call, seatVars, button_held>>
    /\ pointer_focus' = TRUE
    /\ configured
    /\ pointer_x' = p[1]
    /\ pointer_y' = p[2]
    /\ UNCHANGED <<requests, pc, width, height, marginVars, visible, is_dragging,
                   start_x, start_y, outputVars, text, current_workspace,
                   text_changed, scrollVars, surface, current_buffer,
                   auto_scroll, fileVars, configured, srv_attached>>

PointerLeave ==
    /\ pc = "running"
    /\ UNCHANGED <<loopVars, handlerVars, call, seatVars, button_held>>
    /\ pointer_focus' = FALSE
    /\ configured
    /\ UNCHANGED <<requests, pc, width, height, marginVars, visible, dragVars,
                   outputVars, text, current_workspace, text_changed,
                   scrollVars, surface, current_buffer, auto_scroll, fileVars,
                   configured, srv_attached>>

\* A Motion handler that keeps the press position as the reference point.
PointerMotionFromAnchor(p) ==
    /\ pc = "running"
    /\ UNCHANGED <<loopVars, handlerVars, call, seatVars, inputVars>>
    /\ configured
    /\ pointer_x' = p[1]
    /\ pointer_y' = p[2]
    /\ IF is_dragging
       THEN LET dx == p[1] - start_x
                dy == p[2] - start_y
                max_x == MaxMargin(output_width, width)
                max_y == MaxMargin(output_height, height)
            IN  /\ Len(margin_log.data) < MaxLogLines
                /\ margin_x' = ClampMargin(margin_x + TruncPx(dx), max_x)
                /\ margin_y' = ClampMargin(margin_y + TruncPx(dy), max_y)
                /\ UNCHANGED <<start_x, start_y>>
                /\ margin_log' = AppendLog(margin_log, margin_x', margin_y')
                /\ Send(IF surface
                        THEN <<Req("set_margin", <<margin_y', margin_x'>>),
                               Req("commit", <<>>)>>
                        ELSE <<>>)
       ELSE UNCHANGED <<marginVars, start_x, start_y, srv_attached, requests>>
    /\ UNCHANGED <<pc, width, height, visible, is_dragging, outputVars, text,
                   current_workspace, text_changed, scrollVars, surface,
                   current_buffer, auto_scroll, fileVars, configured>>

\* Motion, with update_drag when a drag is on (overlay.rs:674-685, 518-557).
PointerMotion(p) ==
    /\ pc = "running"
    /\ UNCHANGED <<loopVars, handlerVars, call, seatVars, inputVars>>
    /\ configured
    /\ pointer_x' = p[1]
    /\ pointer_y' = p[2]
    /\ IF is_dragging
       THEN LET dx == p[1] - start_x
                dy == p[2] - start_y
                max_x == MaxMargin(output_width, width)
                max_y == MaxMargin(output_height, height)
            IN  /\ Len(margin_log.data) < MaxLogLines
                /\ margin_x' = ClampMargin(margin_x + TruncPx(dx), max_x)
                /\ margin_y' = ClampMargin(margin_y + TruncPx(dy), max_y)
                /\ start_x' = p[1]
                /\ start_y' = p[2]
                /\ margin_log' = AppendLog(margin_log, margin_x', margin_y')
                /\ Send(IF surface
                        THEN <<Req("set_margin", <<margin_y', margin_x'>>),
                               Req("commit", <<>>)>>
                        ELSE <<>>)
       ELSE UNCHANGED <<marginVars, start_x, start_y, srv_attached, requests>>
    /\ UNCHANGED <<pc, width, height, visible, is_dragging, outputVars, text,
                   current_workspace, text_changed, scrollVars, surface,
                   current_buffer, auto_scroll, fileVars, configured>>

\* Button: start_drag / stop_drag for the left button (overlay.rs:686-710).
PointerButton(button, pressed) ==
    /\ pc = "running"
    /\ UNCHANGED <<loopVars, handlerVars, call, seatVars, pointer_focus>>
    /\ button_held' = IF button = BTN_LEFT THEN pressed ELSE button_held
    /\ configured
    /\ IF button = BTN_LEFT /\ pressed
       THEN /\ is_dragging' = TRUE
            /\ start_x' = pointer_x
            /\ start_y' = pointer_y
       ELSE IF button = BTN_LEFT
       THEN /\ is_dragging' = FALSE
            /\ UNCHANGED <<start_x, start_y>>
       ELSE UNCHANGED <<is_dragging, start_x, start_y>>
    /\ UNCHANGED <<requests, pc, width, height, marginVars, visible, pointer_x,
                   pointer_y, outputVars, text, current_workspace,
                   text_changed, scrollVars, surface, current_buffer,
                   auto_scroll, fileVars, configured, srv_attached>>

\* The user presses or releases the left button while the pointer is not
\* over the overlay: the client receives no event (overlay.rs:671-673 does
\* nothing on Leave, and no handler runs until the next Enter).
ButtonUnseen(pressed) ==
    /\ pc = "running"
    /\ ~pointer_focus
    /\ button_held # pressed
    /\ button_held' = pressed
    /\ UNCHANGED <<loopVars, handlerVars, call, seatVars, pointer_focus>>
    /\ UNCHANGED <<requests, pc, width, height, marginVars, visible, dragVars,
                   outputVars, text, current_workspace, text_changed,
                   scrollVars, surface, current_buffer, auto_scroll, fileVars,
                   configured, srv_attached>>

\* An axis value applied without the scroll speed.
ScrollAmountUnscaled(value) == value

\* `value as f32 / CONFIG.app.scroll_speed`; the model's axis values are
\* multiples of the scroll speed, so the quotient is exact.
ScrollAmount(value) == value \div ConfigScrollSpeed

\* A clamp that floors the offset at 0 and puts no ceiling on it.
ClampScrollFloorOnly(scroll, max_scroll) == Max(scroll, 0)

\* (scroll_offset_y + scroll_amount).max(0.0).min(max_scroll_offset_y)
ClampScroll(scroll, max_scroll) == Min(Max(scroll, 0), max_scroll)

\* Axis (overlay.rs:711-722)
PointerAxis(vertical, value, ok) ==
    /\ pc = "running"
    /\ UNCHANGED <<loopVars, handlerVars, call, seatVars, inputVars>>
    /\ configured
    /\ IF vertical
       THEN LET new_scroll ==
                    ClampScroll(scroll_offset_y + ScrollAmount(value),
                                max_scroll_offset_y)
                d == draw_overlay(surface, visible, current_buffer,
                                  text_changed, width, height,
                                  Shown(text, new_scroll, current_workspace),
                                  srv_attached, ok)
            IN  /\ scroll_offset_y' = new_scroll
                /\ current_buffer' = d.current_buffer
                /\ text_changed' = d.text_changed
                /\ Send(d.reqs)
       ELSE UNCHANGED <<scroll_offset_y, current_buffer, text_changed,
                       srv_attached, requests>>
    /\ UNCHANGED <<pc, width, height, marginVars, visible, dragVars,
                   outputVars, text, current_workspace, max_scroll_offset_y,
                   surface, auto_scroll, fileVars, configured>>

(***************************************************************************)
(* Keyboard events (overlay.rs:740-765): ESC toggles visibility            *)
(* (overlay.rs:501-509), R forces a redraw.                                *)
(***************************************************************************)
KeyboardKey(key, pressed, ok) ==
    /\ pc = "running"
    /\ UNCHANGED <<loopVars, handlerVars, call, seatVars, inputVars>>
    /\ configured
    /\ IF pressed /\ key = KEY_ESC
       THEN LET d == draw_overlay(surface, TRUE, current_buffer, text_changed,
                                  width, height,
                                  Shown(text, scroll_offset_y, current_workspace),
                                  srv_attached, ok)
            IN  /\ visible' = ~visible
                /\ IF visible'
                   THEN /\ current_buffer' = d.current_buffer
                        /\ text_changed' = d.text_changed
                        /\ Send(d.reqs)
                   ELSE /\ UNCHANGED <<current_buffer, text_changed>>
                        /\ Send(IF surface
                                THEN <<Req("attach", <<0>>), Req("commit", <<>>)>>
                                ELSE <<>>)
       ELSE IF pressed /\ key = KEY_R
       THEN LET d == force_redraw(surface, visible, current_buffer, width,
                                  height,
                                  Shown(text, scroll_offset_y, current_workspace),
                                  srv_attached, ok)
            IN  /\ current_buffer' = d.current_buffer
                /\ text_changed' = d.text_changed
                /\ Send(d.reqs)
                /\ UNCHANGED visible
       ELSE UNCHANGED <<visible, current_buffer, text_changed, srv_attached,
                       requests>>
    /\ UNCHANGED <<pc, width, height, marginVars, dragVars, outputVars, text,
                   current_workspace, scrollVars, surface, auto_scroll,
                   fileVars, configured>>

(***************************************************************************)
(* Seat events (overlay.rs:769-797).  Capabilities arrive in the poll loop,*)
(* after the roundtrip that bound wl_seat (overlay.rs:603-605, 1617-1618). *)
(***************************************************************************)
\* The most keyboard objects, and pointer objects, the model lets the client
\* acquire.
MaxSeatObjects == 3

\* Event::Capabilities: kbd and ptr tell whether the announced set contains
\* Capability::Keyboard and Capability::Pointer.
SeatCapabilities(kbd, ptr) ==
    /\ pc = "running"
    /\ UNCHANGED <<loopVars, handlerVars, call, inputVars>>
    /\ kbd => keyboards < MaxSeatObjects
    /\ ptr => pointers < MaxSeatObjects
    /\ keyboards' = IF kbd THEN keyboards + 1 ELSE keyboards
    /\ pointers' = IF ptr THEN pointers + 1 ELSE pointers
    /\ Send((IF kbd THEN <<Req("get_keyboard", <<>>)>> ELSE <<>>)
            \o (IF ptr THEN <<Req("get_pointer", <<>>)>> ELSE <<>>))
    /\ UNCHANGED <<pc, width, height, marginVars, visible, dragVars,
                   outputVars, text, current_workspace, text_changed,
                   scrollVars, surface, current_buffer, auto_scroll, fileVars,
                   configured>>

(***************************************************************************)
(* Output events (overlay.rs:811-820).                                     *)
(***************************************************************************)
OutputMode(w, h) ==
    /\ pc = "running"
    /\ UNCHANGED <<loopVars, handlerVars, call, seatVars, inputVars>>
    /\ output_width' = w
    /\ output_height' = h
    /\ UNCHANGED <<requests, pc, width, height, marginVars, visible, dragVars, text,
                   current_workspace, text_changed, scrollVars, surface,
                   current_buffer, auto_scroll, fileVars, configured,
                   srv_attached>>

(***************************************************************************)
(* The collaborators: the upstream process rewrites a workspace's text     *)
(* file (event_handler.rs:645-651) and the workspace-id file.              *)
(***************************************************************************)
WriteTextFile(n, content) ==
    /\ pc = "running"
    /\ UNCHANGED <<loopVars, handlerVars, call, seatVars, inputVars>>
    /\ text_files' = [text_files EXCEPT ![n] = content]
    /\ UNCHANGED <<pc, width, height, marginVars, visible, dragVars,
                   outputVars, text, current_workspace, text_changed,
                   scrollVars, surface, current_buffer, auto_scroll, ws_file,
                   configured, srv_attached, requests>>

WriteWorkspaceFile(content) ==
    /\ pc = "running"
    /\ UNCHANGED <<loopVars, handlerVars, call, seatVars, inputVars>>
    /\ ws_file' = content
    /\ UNCHANGED <<pc, width, height, marginVars, visible, dragVars,
                   outputVars, text, current_workspace, text_changed,
                   scrollVars, surface, current_buffer, auto_scroll,
                   text_files, configured, srv_attached, requests>>

(***************************************************************************)
(* The end of a poll loop iteration (overlay.rs:1653-1684): pending events *)
(* are dispatched by the event actions above; what remains is the          *)
(* keepalive, a roundtrip, which returns only once the compositor has      *)
(* answered the sync request.                                              *)
(***************************************************************************)
\* `ROUNDTRIP_COUNTER % 100 == 0` (overlay.rs:1670)
KeepaliveInterval == 100

\* `ROUNDTRIP_COUNTER += 0` (overlay.rs:1669)
CounterIncrement == 0

\* The most iterations of the poll loop the model follows.
MaxIterations == 110

PollLoopTail ==
    /\ pc = "running"
    /\ iteration < MaxIterations
    /\ ROUNDTRIP_COUNTER' = ROUNDTRIP_COUNTER + CounterIncrement
    /\ roundtrips' =
          IF ROUNDTRIP_COUNTER' % KeepaliveInterval = 0
          THEN roundtrips + 1 ELSE roundtrips
    /\ iteration' = iteration + 1
    /\ UNCHANGED <<appVars, handlerVars, call>>

(***************************************************************************)
(* The event handler (event_handler.rs).  A line of .event is one key      *)
(* token; .event is a sequence of lines and positions in it count lines:   *)
(* it is only ever appended to, a whole number of lines at a time, so      *)
(* every length and position the handler sees lies on a line boundary.     *)
(* The AI manager tasks are outside the model; only their number is kept.  *)
(***************************************************************************)
\* aerogel.toml [keybindings], canonical: the modifiers in order, then the
\* key.  A combo is the sequence of its parts, which join("+") turns into
\* one string; no part holds a "+".
SwitchToWorkspaceBinding == "Super"

TypeTextBinding == <<"Ctrl", "t">>

SolveBinding == <<"Ctrl", "Enter">>

ClearBinding == <<"Ctrl", "c">>

TakeScreenshotBinding == <<"Ctrl", "s">>

ShowHideBinding == <<"Ctrl", "h">>

\* matches!(trimmed_line, "[CtrlL]" | ... | "[SuperL]")
\* (event_handler.rs:364-367)
ModifierTokens ==
    {"[CtrlL]", "[CtrlR]", "[AltL]", "[AltR]", "[ShiftL]", "[ShiftR]",
     "[SuperL]"}

\* get_canonical_modifier (event_handler.rs:553-561)
get_canonical_modifier(modifier) ==
    CASE modifier \in {"[CtrlL]", "[CtrlR]"} -> "Ctrl"
      [] modifier \in {"[AltL]", "[AltR]"} -> "Alt"
      [] modifier \in {"[ShiftL]", "[ShiftR]"} -> "Shift"
      [] modifier = "[SuperL]" -> "Super"
      [] OTHER -> ""

\* The tokens of the model that start with '[' and end with ']'.
BracketedTokens ==
    ModifierTokens \cup {"[Space]", "[Backspace]", "[Enter]", "[Tab]"}

\* trimmed_line.len() == 1 && is_ascii_digit (event_handler.rs:342-343)
IsDigitToken(token) == token \in {DigitChars[i] : i \in 1..10}

\* combo_parts: the canonical modifiers, sorted and without duplicates
\* (event_handler.rs:388-394); the names in the order of str's Ord.
ComboParts(modifiers) ==
    LET held == {get_canonical_modifier(modifiers[i]) :
                    i \in 1..Len(modifiers)} \ {""}
        IsHeld(p) == p \in held
    IN  SelectSeq(<<"Alt", "Ctrl", "Shift", "Super">>, IsHeld)

\* final_key (event_handler.rs:396-400); no token of the model starts with
\* "shift+".
FinalKey(token) ==
    CASE token = "[Enter]" -> "Enter"
      [] token = "[Space]" -> "Space"
      [] OTHER -> token

\* tokio::fs::write(path, content) on .tmpN, both steps done
\* (event_handler.rs:645-647).
overwrite_text_log(files, n, content) ==
    IF n \in DOMAIN files THEN [files EXCEPT ![n] = File(content)] ELSE files

\* clear_text_log (event_handler.rs:649-651)
clear_text_log(files, n) == overwrite_text_log(files, n, <<>>)

\* The handler's fields and files as one record, for the step functions.
HandlerState ==
    [running |-> eh_running,
     current_workspace |-> eh_current_workspace,
     senders |-> ai_process_senders,
     managers |-> ai_managers,
     waiting |-> waiting_for_workspace_number,
     modifiers |-> active_modifiers,
     recording |-> in_recording_mode,
     key_buffer |-> key_buffer,
     snapshot |-> log_snapshot_before_recording,
     text_files |-> text_files,
     ws_file |-> ws_file]

\* What can go wrong in a step: nothing, the write of .aerogel_workspace,
\* or the write of a text file.
IoOutcomes == {"ok", "state_file_fails", "text_log_fails"}

\* A write of .tmpN that `?` follows: done, or main returns with the error.
WriteOrExit(st, n, content, io) ==
    IF io = "text_log_fails" THEN [st EXCEPT !.running = FALSE]
    ELSE [st EXCEPT !.text_files = overwrite_text_log(@, n, content)]

\* A switch that registers no sender for a workspace it sees first.
SwitchWithoutSender(st, new_workspace_str, io) ==
    LET new_workspace_num == Unwrap(ParseU32(<<new_workspace_str>>))
    IN  IF new_workspace_num = 0 \/ new_workspace_num = st.current_workspace
        THEN st
        ELSE [st EXCEPT !.current_workspace = new_workspace_num,
                        !.ws_file = File(FormatNat(new_workspace_num))]

\* switch_workspace for a string that parses (event_handler.rs:175-216);
\* the caller passes one digit.
switch_workspace(st, new_workspace_str, io) ==
    LET new_workspace_num == Unwrap(ParseU32(<<new_workspace_str>>))
        moved == [st EXCEPT !.current_workspace = new_workspace_num]
        saved == [moved EXCEPT !.ws_file = File(FormatNat(new_workspace_num))]
    IN  IF new_workspace_num = 0 THEN st
        ELSE IF new_workspace_num = st.current_workspace THEN st
        ELSE IF io = "state_file_fails" THEN [moved EXCEPT !.running = FALSE]
        ELSE IF new_workspace_num \in saved.senders THEN saved
        ELSE IF io = "text_log_fails" THEN [saved EXCEPT !.running = FALSE]
        ELSE [saved EXCEPT
                !.text_files = clear_text_log(@, new_workspace_num),
                !.managers[new_workspace_num] = @ + 1,
                !.senders = @ \cup {new_workspace_num}]

\* The type_text combo (event_handler.rs:436-456).
StartRecording(st, io) ==
    IF st.recording THEN st
    ELSE
    LET file == TextFile(st.text_files, st.current_workspace)
        read == IF file.exists THEN file.data ELSE <<>>
        snapshot ==
            (IF read # <<>> /\ read[Len(read)] # NL
             THEN Append(read, NL) ELSE read) \o <<NL>>
    IN  WriteOrExit([st EXCEPT !.recording = TRUE,
                               !.key_buffer = <<>>,
                               !.snapshot = snapshot],
                    st.current_workspace, snapshot, io)

\* The clear combo (event_handler.rs:464-476).
ClearAndRestart(st, io) ==
    LET cleared == WriteOrExit(st, st.current_workspace, <<>>, io)
    IN  IF cleared.running /\ st.recording
        THEN [cleared EXCEPT !.key_buffer = <<>>, !.snapshot = <<>>]
        ELSE cleared

\* The solve combo (event_handler.rs:477-515).
Solve(st, io) ==
    IF ~st.recording THEN st
    ELSE
    LET stopped == [st EXCEPT !.recording = FALSE]
        written ==
            IF st.key_buffer # <<>>
            THEN WriteOrExit(stopped, st.current_workspace,
                             st.snapshot \o st.key_buffer
                                 \o <<" ", " ">> \o <<NL>>,
                             io)
            ELSE WriteOrExit(stopped, st.current_workspace, st.snapshot, io)
    IN  IF written.running
        THEN [written EXCEPT !.key_buffer = <<>>, !.snapshot = <<>>]
        ELSE written

\* A key while recording, no modifier held (event_handler.rs:523-543).  The
\* printable tokens of the model are one character long.
RecordKey(st, token, io) ==
    LET buffer ==
            CASE token = "[Space]" -> Append(st.key_buffer, " ")
              [] token = "[Backspace]" ->
                    IF st.key_buffer = <<>> THEN <<>>
                    ELSE SubSeq(st.key_buffer, 1, Len(st.key_buffer) - 1)
              [] token \in BracketedTokens -> st.key_buffer
              [] OTHER -> Append(st.key_buffer, token)
        needs_update ==
            token \in {"[Space]", "[Backspace]"} \/ token \notin BracketedTokens
    IN  IF needs_update
        THEN WriteOrExit([st EXCEPT !.key_buffer = buffer],
                         st.current_workspace, st.snapshot \o buffer, io)
        ELSE st

\* A token that is no modifier (event_handler.rs:386-545).
HandleKey(st, token, io) ==
    LET combo == Append(ComboParts(st.modifiers), FinalKey(token))
        after ==
            IF st.modifiers # <<>>
            THEN CASE combo = TakeScreenshotBinding -> st
                   [] combo = TypeTextBinding -> StartRecording(st, io)
                   [] combo = ShowHideBinding -> st
                   [] combo = ClearBinding -> ClearAndRestart(st, io)
                   [] combo = SolveBinding -> Solve(st, io)
                   [] OTHER -> st
            ELSE IF st.recording THEN RecordKey(st, token, io)
            ELSE st
    IN  IF after.running THEN [after EXCEPT !.modifiers = <<>>] ELSE after

\* A modifier token (event_handler.rs:369-385).
HandleModifier(st, token) ==
    [st EXCEPT
       !.modifiers =
           IF \E i \in 1..Len(@) : @[i] = token THEN @ ELSE Append(@, token),
       !.waiting =
           IF /\ get_canonical_modifier(token) # ""
              /\ get_canonical_modifier(token) = SwitchToWorkspaceBinding
           THEN TRUE ELSE @]

\* The body of `for line in new_content.lines()` for one line
\* (event_handler.rs:329-546).  The sender lookup panics when the current
\* workspace has no entry.
HandleLine(st, token, io) ==
    IF token = "" THEN st
    ELSE IF st.current_workspace \notin st.senders
    THEN [st EXCEPT !.running = FALSE]
    ELSE
    LET armed == [st EXCEPT !.waiting = FALSE]
    IN  IF st.waiting /\ IsDigitToken(token)
        THEN LET switched == switch_workspace(armed, token, io)
             IN  IF switched.running
                 THEN [switched EXCEPT !.modifiers = <<>>]
                 ELSE switched
        ELSE IF token \in ModifierTokens THEN HandleModifier(armed, token)
        ELSE HandleKey(armed, token, io)

\* The handler's fields and files take the values of the record.
HandlerBecomes(st) ==
    /\ eh_running' = st.running
    /\ eh_current_workspace' = st.current_workspace
    /\ ai_process_senders' = st.senders
    /\ ai_managers' = st.managers
    /\ waiting_for_workspace_number' = st.waiting
    /\ active_modifiers' = st.modifiers
    /\ in_recording_mode' = st.recording
    /\ key_buffer' = st.key_buffer
    /\ log_snapshot_before_recording' = st.snapshot
    /\ text_files' = st.text_files
    /\ ws_file' = st.ws_file

\* Everything of the overlay process but the two files the handler writes.
overlayOnlyVars ==
    <<pc, width, height, margin_x, margin_y, visible, is_dragging, start_x,
      start_y, pointer_x, pointer_y, output_width, output_height, text,
      current_workspace, text_changed, scroll_offset_y, max_scroll_offset_y,
      surface, current_buffer, auto_scroll, margin_log, configured,
      srv_attached, requests, keyboards, pointers, pointer_focus,
      button_held, loopVars, call>>

\* The next line of the content read is processed.
ProcessLine(io) ==
    /\ eh_running
    /\ reader.pc = "idle"
    /\ reader.lines # <<>>
    /\ HandlerBecomes(HandleLine(HandlerState, Head(reader.lines), io))
    /\ reader' = [reader EXCEPT !.lines = Tail(@)]
    /\ UNCHANGED <<write_pending, event_log, file_pos, delivered,
                   overlayOnlyVars>>

\* tokio::fs::write(path, content) as its two steps on the file
\* (event_handler.rs:645-647): the file is created or truncated, ...
OverwriteTruncate(n, content) ==
    /\ write_pending = None
    /\ text_files' = [text_files EXCEPT ![n] = File(<<>>)]
    /\ write_pending' = Some([n |-> n, content |-> content])
    /\ UNCHANGED <<eh_running, eh_current_workspace, ai_process_senders,
                   ai_managers, waiting_for_workspace_number,
                   active_modifiers, in_recording_mode, key_buffer,
                   log_snapshot_before_recording, event_log, file_pos,
                   reader, delivered, ws_file, overlayOnlyVars>>

\* ... and then the content is written to it.
OverwriteWrite ==
    /\ write_pending # None
    /\ text_files' = [text_files EXCEPT ![Unwrap(write_pending).n] =
                          File(Unwrap(write_pending).content)]
    /\ write_pending' = None
    /\ UNCHANGED <<eh_running, eh_current_workspace, ai_process_senders,
                   ai_managers, waiting_for_workspace_number,
                   active_modifiers, in_recording_mode, key_buffer,
                   log_snapshot_before_recording, event_log, file_pos,
                   reader, delivered, ws_file, overlayOnlyVars>>

\* The AI manager of workspace n appends its answer to .tmpN, once
\* (ai_manager.rs:177-181, 59).
AiAnswer == <<"b">>

AiAppend(n) ==
    /\ n \in ai_process_senders
    /\ text_files[n].exists
    /\ \A i \in 1..Len(text_files[n].data) : text_files[n].data[i] # "b"
    /\ text_files' = [text_files EXCEPT ![n] = File(@.data \o AiAnswer)]
    /\ UNCHANGED <<handlerVars, ws_file, overlayOnlyVars>>

\* The most keys the user types one by one.
MaxKeys == 5

\* The user presses a key once the handler has processed the keys before
\* it: the listener appends a line to .event.
TypeKey(token) ==
    /\ Len(event_log) < MaxKeys
    /\ reader.pc = "idle"
    /\ reader.lines = <<>>
    /\ file_pos = Len(event_log)
    /\ event_log' = Append(event_log, token)
    /\ UNCHANGED <<eh_running, eh_current_workspace, ai_process_senders,
                   ai_managers, waiting_for_workspace_number,
                   active_modifiers, in_recording_mode, key_buffer,
                   log_snapshot_before_recording, write_pending, file_pos,
                   reader, delivered, fileVars, overlayOnlyVars>>

\* The most lines .event comes to hold.
MaxEventLines == 4

\* The key listener appends a line to .event.
AppendEvent(token) ==
    /\ Len(event_log) < MaxEventLines
    /\ event_log' = Append(event_log, token)
    /\ UNCHANGED <<eh_running, eh_current_workspace, ai_process_senders,
                   ai_managers, waiting_for_workspace_number,
                   active_modifiers, in_recording_mode, key_buffer,
                   log_snapshot_before_recording, write_pending, file_pos,
                   reader, delivered, fileVars, overlayOnlyVars>>

\* read_new_content up to its test of the length
\* (event_handler.rs:629-637), once the watcher has woken the loop.
ReadMetadata ==
    /\ eh_running
    /\ reader.pc = "idle"
    /\ reader.lines = <<>>
    /\ LET current_len == Len(event_log)
       IN  IF current_len = file_pos
           THEN UNCHANGED <<reader, file_pos>>
           ELSE /\ reader' = [reader EXCEPT !.pc = "opened",
                                            !.current_len = current_len]
                /\ file_pos' = IF current_len < file_pos THEN 0 ELSE file_pos
    /\ UNCHANGED <<eh_running, eh_current_workspace, ai_process_senders,
                   ai_managers, waiting_for_workspace_number,
                   active_modifiers, in_recording_mode, key_buffer,
                   log_snapshot_before_recording, write_pending, event_log,
                   delivered, fileVars, overlayOnlyVars>>

\* The rest of read_new_content: seek, read_to_string to the end of the
\* file as it is now, `*last_pos = current_len`
\* (event_handler.rs:638-642).
ReadToString ==
    /\ eh_running
    /\ reader.pc = "opened"
    /\ LET buffer == SubSeq(event_log, file_pos + 1, Len(event_log))
       IN  /\ reader' = [reader EXCEPT !.pc = "idle", !.lines = buffer]
           /\ delivered' = delivered \o buffer
    /\ file_pos' = reader.current_len
    /\ UNCHANGED <<eh_running, eh_current_workspace, ai_process_senders,
                   ai_managers, waiting_for_workspace_number,
                   active_modifiers, in_recording_mode, key_buffer,
                   log_snapshot_before_recording, write_pending, event_log,
                   fileVars, overlayOnlyVars>>

(***************************************************************************)
(* Specifications.  Spec follows the text, scroll, workspace, size and     *)
(* buffer state; SpecDrag follows the pointer, the margins and the output. *)
(* The two sets of handlers write disjoint fields, apart from Configure,   *)
(* which both include.                                                     *)
(***************************************************************************)
Next ==
    \/ Startup
    \/ CheckForWorkspaceSwitch(TRUE)
    \/ UpdateTextFromLog(TRUE)
    \/ \E sz \in ConfigureSizes : Configure(sz[1], sz[2], TRUE)
    \/ \E e \in AxisEvents : PointerAxis(e[1], e[2], TRUE)
    \/ \E e \in KeyEvents : KeyboardKey(e[1], e[2], TRUE)
    \/ \E n \in Workspaces : \E content \in TextFileContents(n) :
          WriteTextFile(n, content)
    \/ \E content \in WorkspaceFileContents : WriteWorkspaceFile(content)

\* The margins stay as loaded in Spec; it starts from the default ones.
InitText ==
    /\ Init
    /\ margin_log = Missing
    /\ \A n \in Workspaces : text_files[n] \in TextFileContents(n)
    /\ ws_file \in WorkspaceFileContents
    /\ current_workspace \in Workspaces

Spec == InitText /\ [][Next]_vars

InitDrag ==
    /\ Init
    /\ ws_file = Missing
    /\ auto_scroll = FALSE
    /\ \A n \in Workspaces : text_files[n] = Missing

NextDrag ==
    \/ Startup
    \/ \E p \in PointerPositions : PointerEnter(p)
    \/ PointerLeave
    \/ \E p \in PointerPositions : PointerMotion(p)
    \/ \E button \in {BTN_LEFT, BTN_RIGHT}, pressed \in BOOLEAN :
          PointerButton(button, pressed)
    \/ \E m \in OutputModes : OutputMode(m[1], m[2])
    \/ \E sz \in ConfigureSizes : Configure(sz[1], sz[2], TRUE)
    \/ Closed

SpecDrag == InitDrag /\ [][NextDrag]_vars

(***************************************************************************)
(* The pointer as a compositor delivers it: Enter when the pointer comes   *)
(* over the surface, Motion and Button while it is there, Leave when the   *)
(* surface loses it, which a compositor may also send with a button down   *)
(* (a grab that is cancelled).                                             *)
(***************************************************************************)
NextPointer ==
    \/ Startup
    \/ \E sz \in ConfigureSizes : Configure(sz[1], sz[2], TRUE)
    \/ \E p \in PointerPositions : ~pointer_focus /\ PointerEnter(p)
    \/ pointer_focus /\ PointerLeave
    \/ \E p \in PointerPositions : pointer_focus /\ PointerMotion(p)
    \/ \E button \in {BTN_LEFT, BTN_RIGHT}, pressed \in BOOLEAN :
          pointer_focus /\ PointerButton(button, pressed)
    \/ \E pressed \in BOOLEAN : ButtonUnseen(pressed)

SpecPointer == InitDrag /\ [][NextPointer]_vars

(***************************************************************************)
(* The overlay with buffer allocation that can fail: every draw either     *)
(* gets its buffer from create_shm_buffer or gets Err.                     *)
(***************************************************************************)
InitBuffer ==
    /\ Init
    /\ margin_log = Missing
    /\ auto_scroll = FALSE
    /\ ws_file = Missing
    /\ text_files[1] = File(DocLong)
    /\ text_files[2] = Missing

NextBuffer ==
    \/ Startup
    \/ \E ok \in BOOLEAN : CheckForWorkspaceSwitch(ok)
    \/ \E ok \in BOOLEAN : UpdateTextFromLog(ok)
    \/ \E sz \in ConfigureSizes, ok \in BOOLEAN : Configure(sz[1], sz[2], ok)
    \/ \E ok \in BOOLEAN : PointerAxis(TRUE, 30, ok)
    \/ \E key \in {KEY_ESC, KEY_R}, ok \in BOOLEAN : KeyboardKey(key, TRUE, ok)
    \/ \E content \in {File(DocShort), File(DocLong)} :
          WriteTextFile(1, content)
    \/ \E content \in {File(<<"1", NL>>), File(<<"2">>)} :
          WriteWorkspaceFile(content)

SpecBuffer == InitBuffer /\ [][NextBuffer]_vars

\* The poll loop alone with the files it polls and the Configure events:
\* no pointer and no keyboard event.
NextPoll ==
    \/ Startup
    \/ \E ok \in BOOLEAN : CheckForWorkspaceSwitch(ok)
    \/ \E ok \in BOOLEAN : UpdateTextFromLog(ok)
    \/ \E sz \in ConfigureSizes, ok \in BOOLEAN : Configure(sz[1], sz[2], ok)
    \/ \E content \in {File(DocShort), File(DocLong)} :
          WriteTextFile(1, content)
    \/ \E content \in {File(<<"1", NL>>), File(<<"2">>)} :
          WriteWorkspaceFile(content)

\* The poll loop never stops: its workspace check and its text check run in
\* every cycle (overlay.rs:1632-1651).  Allocation succeeds from some point
\* on, so the checks that matter are the ones whose draw gets its buffer.
\* The text check changes the state exactly when the active file's text
\* differs from the text shown: ENABLED <<UpdateTextFromLog(TRUE)>>_vars.
TextCheckPending ==
    pc = "running" /\ LoadTextOrDefault(ActiveTextSource) # text

\* WF_vars(UpdateTextFromLog(TRUE)), with its ENABLED written out as
\* TextCheckPending.
TextCheckFair ==
    \/ []<>(~TextCheckPending)
    \/ []<><<UpdateTextFromLog(TRUE)>>_vars

SpecPollLive ==
    /\ InitBuffer
    /\ [][NextPoll]_vars
    /\ WF_vars(CheckForWorkspaceSwitch(TRUE))
    /\ TextCheckFair

(***************************************************************************)
(* The overlay and a text file that is at times missing, empty or blank.   *)
(***************************************************************************)
InitTextSource ==
    /\ Init
    /\ margin_log = Missing
    /\ auto_scroll = FALSE
    /\ ws_file = Missing
    /\ text_files[1] \in {Missing, File(DocShort)} \cup BlankTextFiles
    /\ text_files[2] \in {Missing, File(DocOther)}

NextTextSource ==
    \/ Startup
    \/ CheckForWorkspaceSwitch(TRUE)
    \/ UpdateTextFromLog(TRUE)
    \/ \E sz \in ConfigureSizes : Configure(sz[1], sz[2], TRUE)
    \/ \E content \in {Missing, File(DocShort)} \cup BlankTextFiles :
          WriteTextFile(1, content)
    \/ \E content \in {File(<<"1", NL>>), File(<<"2">>)} :
          WriteWorkspaceFile(content)

SpecTextSource == InitTextSource /\ [][NextTextSource]_vars

(***************************************************************************)
(* The overlay and its seat: the compositor announces the seat's           *)
(* capabilities any number of times, and delivers key and axis events to   *)
(* a client that holds a keyboard or a pointer object.                     *)
(***************************************************************************)
NextSeat ==
    \/ Startup
    \/ \E kbd \in BOOLEAN, ptr \in BOOLEAN : SeatCapabilities(kbd, ptr)
    \/ \E sz \in ConfigureSizes : Configure(sz[1], sz[2], TRUE)
    \/ \E key \in {KEY_ESC, KEY_R} :
          keyboards > 0 /\ KeyboardKey(key, TRUE, TRUE)
    \/ \E e \in AxisEvents : pointers > 0 /\ PointerAxis(e[1], e[2], TRUE)

SpecSeat == InitBuffer /\ [][NextSeat]_vars

(***************************************************************************)
(* Calls of the pure functions of the text pipeline.  The overlay stays in *)
(* the state AppState::new() leaves with no file present; `call` holds the *)
(* arguments and, once the function has returned, its result.              *)
(***************************************************************************)
InitIdle ==
    /\ AppStateNew
    /\ LoopNew
    /\ HandlerNew
    /\ auto_scroll = FALSE
    /\ ws_file = Missing
    /\ margin_log = Missing
    /\ \A n \in Workspaces : text_files[n] = Missing

Call(fn, args) == [fn |-> fn, args |-> args, result |-> None]

Returned(fn) == call.fn = fn /\ call.result # None

\* The longest sequence of ranges given to wrap_line_with_syntax.
MaxWrapRanges == 2

\* The texts of the ranges: a combining mark alone, words, whitespace, a
\* range with a whitespace run inside, ranges that end the line with "\n"
\* and with "\r\n", the line terminator alone and the empty range.
WrapRangeTexts ==
    {<<ZeroWidth>>, <<"a", "a">>, <<" ">>, <<"a", " ", "a", "a", "a">>,
     <<"a", NL>>, <<"b", "\r", NL>>, <<NL>>, <<>>}

\* Ranges as syntect returns them: consecutive ranges differ in style.
WrapRangeSeqs ==
    UNION {{[i \in 1..n |-> Styled(i, f[i])] : f \in [1..n -> WrapRangeTexts]} :
           n \in 0..MaxWrapRanges}

WrapMaxWidths == {0, 15, 25}

InitWrap ==
    /\ InitIdle
    /\ \E ranges \in WrapRangeSeqs, max_width \in WrapMaxWidths :
          call = Call("wrap_line_with_syntax", <<ranges, max_width>>)

WrapLineWithSyntax ==
    /\ call.fn = "wrap_line_with_syntax"
    /\ call.result = None
    /\ call' = [call EXCEPT
                  !.result =
                      Some(wrap_line_with_syntax(call.args[1], call.args[2]))]
    /\ UNCHANGED <<appVars, loopVars, handlerVars>>

SpecWrap == InitWrap /\ [][WrapLineWithSyntax]_vars

\* The most lines of an input of parse_markdown.
MaxMdLines == 3

\* The lines of the inputs: a paragraph line, one ending in a hard break,
\* a heading, a blank line, and fences without and with a language.
MdLines ==
    {<<"a">>, <<"a", " ", " ">>, <<"#", " ", "a">>, <<>>,
     <<Backtick, Backtick, Backtick>>,
     <<Backtick, Backtick, Backtick, "p">>}

RECURSIVE JoinLines(_)
JoinLines(ls) ==
    IF ls = <<>> THEN <<>>
    ELSE IF Len(ls) = 1 THEN ls[1]
    ELSE ls[1] \o <<NL>> \o JoinLines(Tail(ls))

MdLineSeqs == UNION {[1..n -> MdLines] : n \in 0..MaxMdLines}

Fence == <<Backtick, Backtick, Backtick>>

\* Text, a fenced code block with info string lang and body (whole lines),
\* then text.
FencedInput(before, lang, body, after) ==
    before \o <<NL>> \o Fence \o lang \o <<NL>> \o body \o Fence \o <<NL>>
    \o after

FencedTexts == {<<"a">>, <<"b", " ", "b">>}

FencedLangs == {<<"p", "y">>, <<>>}

\* Code bodies: one line, and two lines of which the second is indented.
FencedBodies == {<<"p", NL>>, <<"p", NL, " ", "q", NL>>}

FencedInputs ==
    {FencedInput(before, lang, body, after) :
        before \in FencedTexts, lang \in FencedLangs,
        body \in FencedBodies, after \in FencedTexts}

MdInputs == {JoinLines(ls) : ls \in MdLineSeqs} \cup FencedInputs

InitMarkdown ==
    /\ InitIdle
    /\ \E input \in MdInputs : call = Call("parse_markdown", <<input>>)

ParseMarkdown ==
    /\ call.fn = "parse_markdown"
    /\ call.result = None
    /\ call' = [call EXCEPT !.result = Some(parse_markdown(call.args[1]))]
    /\ UNCHANGED <<appVars, loopVars, handlerVars>>

SpecMarkdown == InitMarkdown /\ [][ParseMarkdown]_vars

\* The longest margin.log given to load_margins_from_log.
MaxLoadLines == 2

\* What the x= field and the y= field of a line may parse to.
LogFieldValues == {None, Some(30), Some(70)}

\* The lines of a margin.log: with or without "Dragging:", each field
\* parseable or not.
LogLines ==
    [dragging : BOOLEAN, x : LogFieldValues, y : LogFieldValues]

MarginLogs ==
    {Missing}
    \cup {File(ls) : ls \in UNION {[1..n -> LogLines] : n \in 0..MaxLoadLines}}

\* let (loaded_margin_x, loaded_margin_y) =
\*     Self::load_margins_from_log().unwrap_or((20, 20)) (overlay.rs:209)
SeedMargins(loaded) ==
    IF loaded = None THEN <<DefaultMargin, DefaultMargin>> ELSE Unwrap(loaded)

\* The most restarts of the overlay after its first start.
MaxRestarts == 1

\* A call holds margin.log as the starting process finds it and the margins
\* the earlier starts seeded.
InitLoadMargins ==
    /\ InitIdle
    /\ \E log \in MarginLogs :
          call = Call("load_margins_from_log", <<log, <<>> >>)

\* The call in AppState::new: the margins it seeds and the file it leaves.
LoadMarginsFromLog ==
    /\ call.fn = "load_margins_from_log"
    /\ call.result = None
    /\ call' = [call EXCEPT !.result =
                    Some([margins |->
                              SeedMargins(load_margins_from_log(call.args[1])),
                          log |-> CompactedLog(call.args[1])])]
    /\ UNCHANGED <<appVars, loopVars, handlerVars>>

\* The overlay is started again, with no drag since the last start:
\* margin.log is as that start's load left it.
RestartOverlay ==
    /\ Returned("load_margins_from_log")
    /\ Len(call.args[2]) < MaxRestarts
    /\ call' = Call("load_margins_from_log",
                    <<Unwrap(call.result).log,
                      Append(call.args[2], Unwrap(call.result).margins)>>)
    /\ UNCHANGED <<appVars, loopVars, handlerVars>>

NextLoadMargins == LoadMarginsFromLog \/ RestartOverlay

SpecLoadMargins == InitLoadMargins /\ [][NextLoadMargins]_vars

\* The longest segment given to split_segment_into_tokens.
MaxSegmentLen == 4

\* Segments: words, spaces and line terminators in any order.
Segments ==
    UNION {[1..n -> {"a", " ", NL}] : n \in 0..MaxSegmentLen}

\* Calls of the tokenizer, and calls of the wrap engine that uses it.
InitTokens ==
    /\ InitIdle
    /\ \/ \E seg \in Segments :
             call = Call("split_segment_into_tokens", <<seg>>)
       \/ \E ranges \in WrapRangeSeqs, max_width \in WrapMaxWidths :
             call = Call("wrap_line_with_syntax", <<ranges, max_width>>)

SplitSegmentIntoTokens ==
    /\ call.fn = "split_segment_into_tokens"
    /\ call.result = None
    /\ call' = [call EXCEPT
                  !.result = Some(split_segment_into_tokens(call.args[1]))]
    /\ UNCHANGED <<appVars, loopVars, handlerVars>>

NextTokens == SplitSegmentIntoTokens \/ WrapLineWithSyntax

SpecTokens == InitTokens /\ [][NextTokens]_vars

\* The longest code line that is wrapped alone and doubled.
MaxCodeLineLen == 4

\* Code lines: words and spaces.
CodeLines ==
    UNION {[1..n -> {"a", " "}] : n \in 1..MaxCodeLineLen}

\* The overlay widths the code lines are wrapped at.
CodeLineWidths == {100, 106}

\* _calculate_block_height's call for one line of a code block, the line
\* alone or doubled (overlay.rs:1520-1523).
InitCodeLine ==
    /\ InitIdle
    /\ \E l \in CodeLines \cup {k \o k : k \in CodeLines},
          w \in CodeLineWidths :
          call = Call("wrap_line_with_syntax",
                      <<highlight_line(Append(l, NL), <<"p", "y">>),
                        max_line_width(w, TRUE)>>)

SpecCodeLine == InitCodeLine /\ [][WrapLineWithSyntax]_vars

\* The number of times calculate_text_height is invoked on one input.
MaxHeightCalls == 2

InitHeight ==
    /\ InitIdle
    /\ \E t \in MdInputs \cup Texts, w \in Widths :
          call = Call("calculate_text_height", <<t, w>>)

\* An invocation that leaves its result where the next invocation takes
\* its width from.
CalculateTextHeightKeepingResult ==
    /\ call.fn = "calculate_text_height"
    /\ Len(call.result) < MaxHeightCalls
    /\ LET h == calculate_text_height(call.args[1], call.args[2])
       IN  call' = [call EXCEPT !.args = <<call.args[1], h>>,
                                !.result = Append(call.result, h)]
    /\ UNCHANGED <<appVars, loopVars, handlerVars>>

\* One invocation of calculate_text_height(&font, &text, &syntax_set,
\* &theme, width): every argument is read only, and the highlighter of a
\* block is created inside the call (overlay.rs:1462-1530).  `result` holds
\* the values returned so far.
CalculateTextHeight ==
    /\ call.fn = "calculate_text_height"
    /\ Len(call.result) < MaxHeightCalls
    /\ call' = [call EXCEPT
                  !.result =
                      Append(call.result,
                             calculate_text_height(call.args[1],
                                                   call.args[2]))]
    /\ UNCHANGED <<appVars, loopVars, handlerVars>>

SpecHeight == InitHeight /\ [][CalculateTextHeight]_vars

(***************************************************************************)
(* render_text next to calculate_text_height: the widths make a code line  *)
(* wrap where a text line does not, the heights clip some texts and hold   *)
(* the others whole.                                                       *)
(***************************************************************************)
RenderWidths == {91, 300}

RenderHeights == {60, 400}

RenderScrolls == {0, 20}

InitRender ==
    /\ InitIdle
    /\ \E t \in MdInputs \cup Texts, w \in RenderWidths,
          h \in RenderHeights, s \in RenderScrolls :
          call = Call("render_text", <<t, w, h, s>>)

RenderText ==
    /\ call.fn = "render_text"
    /\ call.result = None
    /\ call' = [call EXCEPT
                  !.result = Some(render_text(call.args[1], call.args[2],
                                              call.args[3], call.args[4]))]
    /\ UNCHANGED <<appVars, loopVars, handlerVars>>

SpecRender == InitRender /\ [][RenderText]_vars

(***************************************************************************)
(* Properties.                                                             *)
(***************************************************************************)

\* C1: in every state reached by any interleaving of vertical axis events,
\* text changes, Configure events and workspace switches, the scroll offset
\* lies between 0 and max_scroll_offset_y.
C1_ScrollWithinRange ==
    0 <= scroll_offset_y /\ scroll_offset_y <= max_scroll_offset_y

\* The overlay loaded the long text of workspace 1, was resized by a
\* Configure, switched to workspace 2 (which put the offset back to 0) and
\* was then scrolled to the end by axis events, the text not yet reloaded.
C1_Witness ==
    /\ pc = "running"
    /\ configured
    /\ current_workspace = 2
    /\ text = DocLong
    /\ width # ConfigWidth
    /\ scroll_offset_y > 0
    /\ scroll_offset_y = max_scroll_offset_y

MarginsWithinOutput ==
    /\ 0 <= margin_x /\ margin_x <= output_width - width
    /\ 0 <= margin_y /\ margin_y <= output_height - height

\* A pointer event of the drag: Enter, Motion, Leave, a button.
PointerEvent ==
    \/ \E p \in PointerPositions : PointerEnter(p) \/ PointerMotion(p)
    \/ PointerLeave
    \/ \E button \in {BTN_LEFT, BTN_RIGHT}, pressed \in BOOLEAN :
          PointerButton(button, pressed)

\* C2: after every pointer event of a drag sequence, from whatever margins
\* the overlay started with (those read from margin.log included), margin_x
\* is in [0, output_width - width] and margin_y in [0, output_height - height].
C2_MarginsWithinOutputAfterDrag ==
    [][PointerEvent => MarginsWithinOutput']_vars

\* C3: in every reachable state (at startup with margins read from
\* margin.log, after a Mode event, after a text change or a Configure),
\* margin_x is in [0, output_width - width] and margin_y in
\* [0, output_height - height].
C3_MarginsWithinOutputAlways == MarginsWithinOutput

\* No destroy request in rs names the buffer the surface has at that point,
\* the surface having `attached` before rs.
DestroysOnlyReplaced(attached, rs) ==
    \A i \in 1..Len(rs) :
        rs[i].op = "destroy" =>
            AttachedAfter(attached, SubSeq(rs, 1, i - 1)) # rs[i].arg[1]

\* C4: the requests of a handler never destroy the buffer the surface
\* references at that point: the previous buffer is destroyed only after its
\* replacement has been created, attached and committed.
C4_BufferDestroyedAfterReplacement ==
    [][requests' # requests =>
           DestroysOnlyReplaced(srv_attached, requests')]_vars

\* C5: in every reachable state, height is the smaller of the measured
\* height of the current text at the current width and the configured
\* maximum, also after a Configure that carries a size.
C5_HeightIsMeasuredOrMax ==
    height = Min(TextHeight(text, width), ConfigMaxHeight)

\* C6: in every reachable state the scroll offset is at most
\* max(0, content height - height), and max_scroll_offset_y equals that
\* bound, also after a Configure that assigns a new size.
C6_ScrollBoundFollowsSize ==
    LET bound == Max(TextHeight(text, width) - height, 0)
    IN  /\ scroll_offset_y <= bound
        /\ max_scroll_offset_y = bound

\* The workspace check finds a nonzero id other than the current one.
SwitchPending ==
    /\ read_current_workspace(ws_file) # None
    /\ Unwrap(read_current_workspace(ws_file)) # current_workspace
    /\ Unwrap(read_current_workspace(ws_file)) > 0

\* C7: a workspace check that finds a different nonzero id sets
\* current_workspace to it, resets the scroll offset to 0 and makes the text
\* file of the new id the one the text check reads, and leaves margin_x,
\* margin_y and visible as they were.
C7_WorkspaceSwitchEffect ==
    [][(CheckForWorkspaceSwitch(TRUE) /\ SwitchPending) =>
           /\ current_workspace' = Unwrap(read_current_workspace(ws_file))
           /\ scroll_offset_y' = 0
           /\ ActiveTextSource' =
                 TextFile(text_files,
                          Unwrap(read_current_workspace(ws_file)))
           /\ UNCHANGED <<margin_x, margin_y, visible>>]_vars

\* The overlay showed the long text of workspace 1 and the workspace check
\* has just switched it to workspace 2: the text is not yet reloaded, the
\* scroll offset is back at 0 of the 20 the text can scroll, and the overlay
\* had been hidden before the switch.
C7_Witness ==
    /\ pc = "running"
    /\ current_workspace = 2
    /\ read_current_workspace(ws_file) = Some(2)
    /\ text = DocLong
    /\ max_scroll_offset_y > 0
    /\ scroll_offset_y = 0
    /\ ~visible

\* C8: until the first Configure has been received and acknowledged, the
\* surface has no buffer and no handler has sent an attach of a buffer: a
\* text change or a workspace change polled before it draws nothing.
C8_NoBufferBeforeFirstConfigure ==
    ~configured =>
        /\ srv_attached = 0
        /\ \A i \in 1..Len(requests) :
              requests[i].op = "attach" => requests[i].arg = <<0>>

\* The summed width of the tokens of a wrapped line.
LineWidth(line) ==
    SumSeq([i \in 1..Len(line) |-> measure_text_width(line[i].text)])

\* C9: every line wrap_line_with_syntax returns has summed token width at
\* most max_width, unless it is one token that is itself wider than
\* max_width.
C9_WrappedLinesFit ==
    Returned("wrap_line_with_syntax") =>
        LET lines == Unwrap(call.result)
            max_width == call.args[2]
        IN  \A i \in 1..Len(lines) :
               \/ LineWidth(lines[i]) <= max_width
               \/ /\ Len(lines[i]) = 1
                  /\ measure_text_width(lines[i][1].text) > max_width

\* No line of the text opens a fenced code block.
NoFenceMarkers(input) ==
    \A i \in 1..Len(StrLines(input)) : ~IsFenceOpen(StrLines(input)[i])

\* C10: for an input without fence markers (and with some text in it: the
\* empty input has no block) parse_markdown returns exactly one Text block,
\* whose body is the trimmed input.
C10_NoFenceGivesTrimmedText ==
    (/\ Returned("parse_markdown")
     /\ NoFenceMarkers(call.args[1])
     /\ Trim(call.args[1]) # <<>>) =>
        Unwrap(call.result) = <<TextBlock(Trim(call.args[1]))>>

\* C11: for text, a fenced code block with a language and a body, then
\* text, parse_markdown returns the first text, the code block with that
\* language and the body verbatim, and the last text, in this order, both
\* texts without trailing separators.
C11_FencedBlockBetweenTexts ==
    Returned("parse_markdown") =>
        \A before \in FencedTexts, lang \in FencedLangs \ {<<>>},
           body \in FencedBodies, after \in FencedTexts :
            call.args[1] = FencedInput(before, lang, body, after) =>
                Unwrap(call.result) =
                    <<TextBlock(before), CodeBlock(lang, body),
                      TextBlock(after)>>

\* C12: the Code block of a fence without a language token carries the
\* plain-text tag "txt", and that of a fence with a token carries exactly
\* the token.
C12_FenceLanguageTag ==
    Returned("parse_markdown") =>
        \A before \in FencedTexts, lang \in FencedLangs,
           body \in FencedBodies, after \in FencedTexts :
            call.args[1] = FencedInput(before, lang, body, after) =>
                /\ Len(Unwrap(call.result)) >= 2
                /\ Unwrap(call.result)[2].kind = "Code"
                /\ Unwrap(call.result)[2].lang =
                      IF lang = <<>> THEN TxtLang ELSE lang

\* Line k of ls opens a fence that no earlier line opens and no later line
\* closes.
UnterminatedAt(ls, k) ==
    /\ k \in 1..Len(ls)
    /\ IsFenceOpen(ls[k])
    /\ \A j \in 1..(k - 1) : ~IsFenceOpen(ls[j])
    /\ \A j \in (k + 1)..Len(ls) : ~IsFenceClose(ls[j], FenceRun(ls[k]))

\* C13: when the input ends inside an open fence, the body collected so far
\* is the last block, a Code block; and at the end of any input no collected
\* code is left behind and collected text is the last block.
C13_UnterminatedFenceFlushed ==
    Returned("parse_markdown") =>
        LET input  == call.args[1]
            blocks == Unwrap(call.result)
            st     == ParseFold(ParseInit, Parser(input))
        IN  /\ \A ls \in MdLineSeqs, k \in 1..MaxMdLines :
                  (input = JoinLines(ls) /\ UnterminatedAt(ls, k)) =>
                      LET body == JoinLines(SubSeq(ls, k + 1, Len(ls)))
                      IN  body # <<>> =>
                              /\ blocks # <<>>
                              /\ blocks[Len(blocks)] =
                                    CodeBlock(FenceInfo(ls[k]), body)
            /\ st.current_code = <<>>
            /\ st.current_text # <<>> =>
                  /\ blocks # <<>>
                  /\ blocks[Len(blocks)] = TextBlock(st.current_text)

\* parse_markdown has returned for a paragraph followed by a fence that is
\* never closed, with two body lines.
C13_Witness ==
    /\ Returned("parse_markdown")
    /\ call.args[1] =
          JoinLines(<< <<"a">>, <<Backtick, Backtick, Backtick, "p">>,
                       <<"#", " ", "a">> >>)
    /\ Unwrap(call.result) =
          <<TextBlock(<<"a">>), CodeBlock(<<"p">>, <<"#", " ", "a">>)>>

\* The requests rs create a buffer of the given size and content, attach it
\* and leave it the surface's buffer.
Presents(rs, attached, w, h, shown) ==
    /\ attached # 0
    /\ \E i \in 1..Len(rs) :
          rs[i] = Req("create_buffer", <<attached, w, h, shown>>)
    /\ \E i \in 1..Len(rs) : rs[i] = Req("attach", <<attached>>)

\* C14: while the overlay is hidden the surface has no buffer, whatever
\* scroll, text, Configure, workspace or redraw events arrive; no step
\* destroys the surface or the layer surface; and the toggle back to visible
\* presents a buffer rendered from the text, scroll offset and size of that
\* moment.
C14_HiddenOverlayHasNoBuffer ==
    /\ [](~visible => srv_attached = 0)
    /\ [][/\ surface => surface'
          /\ \A i \in 1..Len(requests') :
                requests'[i].op \notin
                    {"destroy_surface", "destroy_layer_surface"}
          /\ (~visible /\ visible') =>
                Presents(requests', srv_attached', width', height',
                         Shown(text', scroll_offset_y',
                               current_workspace'))]_vars

\* The overlay is hidden and, since it was hidden, its text was reloaded and
\* it was scrolled, on workspace 2.
C14_Witness ==
    /\ pc = "running"
    /\ ~visible
    /\ srv_attached = 0
    /\ current_buffer # 0
    /\ text_changed
    /\ scroll_offset_y > 0
    /\ current_workspace = 2

\* A handler ran draw_overlay on the visible overlay and create_shm_buffer
\* returned Err.
FailedDraw ==
    /\ surface
    /\ visible'
    /\ \/ \E sz \in ConfigureSizes : Configure(sz[1], sz[2], FALSE)
       \/ UpdateTextFromLog(FALSE) /\ text' # text
       \/ CheckForWorkspaceSwitch(FALSE)
          /\ current_workspace' # current_workspace
       \/ \E e \in AxisEvents : e[1] /\ PointerAxis(e[1], e[2], FALSE)
       \/ \E key \in {KEY_ESC, KEY_R} : KeyboardKey(key, TRUE, FALSE)

\* C15: a draw whose buffer creation fails changes nothing that is presented:
\* the surface keeps its buffer, that buffer is not destroyed and it is
\* still the current_buffer.
C15_FailedDrawKeepsBuffer ==
    [][FailedDraw =>
           /\ srv_attached' = srv_attached
           /\ current_buffer' = current_buffer
           /\ requests' # requests =>
                 \A i \in 1..Len(requests') : requests'[i].op # "destroy"]_vars

\* The last draw of the visible, configured overlay got no buffer.
DrawFailed ==
    /\ pc = "running"
    /\ configured
    /\ visible
    /\ current_buffer = 0

\* The surface shows the client's current buffer.
Presented == current_buffer # 0 /\ srv_attached = current_buffer

\* C16: after a failed buffer allocation the poll loop draws again by itself,
\* so the overlay is eventually presented (unless it is hidden meanwhile).
C16_FailedDrawRetried == DrawFailed ~> (Presented \/ ~visible)

\* C17: whatever Capabilities events the seat sends, the client holds at most
\* one keyboard object and at most one pointer object.
C17_OneKeyboardOnePointer == keyboards <= 1 /\ pointers <= 1

\* C18: a size requested with set_size after the content height changed is
\* provisional: the step that requests it draws no buffer of that size; a
\* buffer of that size waits for the Configure that confirms it.
C18_RequestedSizeProvisional ==
    [][height' # height =>
          \A i \in 1..Len(requests') :
              requests'[i].op = "set_size" =>
                  \A j \in 1..Len(requests') :
                      ~ /\ requests'[j].op = "create_buffer"
                        /\ requests'[j].arg[2] = requests'[i].arg[1]
                        /\ requests'[j].arg[3] = requests'[i].arg[2]]_vars

\* The lines of a log that hold a pair: "Dragging:", a parseable x and a
\* parseable y.
ValidPairLines(log) ==
    {i \in 1..Len(log.data) :
        /\ log.data[i].dragging
        /\ log.data[i].x # None
        /\ log.data[i].y # None}

\* C19: load_margins_from_log returns the x and y of the last line that holds
\* a valid pair, both from that line; with no such line, or no file, the
\* margins are the default (20, 20).
C19_LastValidPairOrDefault ==
    Returned("load_margins_from_log") =>
        LET log == call.args[1]
            valid == ValidPairLines(log)
            last == CHOOSE i \in valid : \A k \in valid : k <= i
        IN  Unwrap(call.result).margins =
                IF log.exists /\ valid # {}
                THEN <<Unwrap(log.data[last].x), Unwrap(log.data[last].y)>>
                ELSE <<DefaultMargin, DefaultMargin>>

\* A Motion event handled while the drag is on.
DraggingMotion == is_dragging /\ \E p \in PointerPositions : PointerMotion(p)

BlankSource(file) == ~file.exists \/ Trim(file.data) = <<>>

\* C21: when the active workspace's text file gives no text, the text is the
\* key binding listing, at startup and after every text check, and the
\* process keeps running.
C21_BlankSourceShowsDefaultText ==
    /\ [](pc = "connected" /\ BlankSource(ActiveTextSource)
            => text = DefaultText)
    /\ [][(UpdateTextFromLog(TRUE) /\ BlankSource(ActiveTextSource))
            => text' = DefaultText /\ pc' = "running"]_vars

\* The text check found a whitespace-only file where a text had been shown
\* and drew the key binding listing.
C21_Witness ==
    /\ pc = "running"
    /\ ActiveTextSource = File(<<" ", NL>>)
    /\ text = DefaultText
    /\ requests # <<>>
    /\ requests[1].op = "set_size"
    /\ \E i \in 1..Len(requests) :
          requests[i].op = "create_buffer" /\ requests[i].arg[4][1] = DefaultText

\* The source line a sequence of ranges covers.
SourceLine(ranges) == Flatten([i \in 1..Len(ranges) |-> ranges[i].text])

\* C22: every source line yields at least one wrapped line, and an empty
\* source line, or one that is only its terminator, yields exactly one
\* wrapped line that holds no token.
C22_EmptyLineYieldsOneEmptyLine ==
    Returned("wrap_line_with_syntax") =>
        /\ Len(Unwrap(call.result)) >= 1
        /\ SourceLine(call.args[1]) \in {<<>>, <<NL>>}
              => Unwrap(call.result) = << <<>> >>

\* A line that is only its terminator, split over an empty range and the
\* terminator, was wrapped.
C22_Witness ==
    /\ Returned("wrap_line_with_syntax")
    /\ Len(call.args[1]) = 2
    /\ SourceLine(call.args[1]) = <<NL>>
    /\ Unwrap(call.result) = << <<>> >>

WrappedCodeLine(l) ==
    /\ Returned("wrap_line_with_syntax")
    /\ SourceLine(call.args[1]) = Append(l, NL)

RangeTokens(ranges) ==
    Flatten([i \in 1..Len(ranges) |->
        LET toks == split_segment_into_tokens(
                        TrimEndMatches(TrimEndMatches(ranges[i].text, NL),
                                       "\r"))
        IN  [k \in 1..Len(toks) |-> Styled(ranges[i].style, toks[k])]])

Clamp0(v, max) == IF v < 0 THEN 0 ELSE IF v > max THEN max ELSE v

\* The whole pixels of a difference d of two positions, toward zero.
WholePixels(d) ==
    CHOOSE t \in {d \div FixedOne, d \div FixedOne + 1} :
        /\ (d >= 0 => t >= 0 /\ t * FixedOne <= d /\ d < (t + 1) * FixedOne)
        /\ (d < 0 => t <= 0 /\ t * FixedOne >= d /\ d > (t - 1) * FixedOne)

\* C26: a Motion at position p while dragging, with tracked position
\* (start_x, start_y), sets each margin to clamp(margin + whole pixels of
\* (p - tracked), 0, max) and makes p the tracked position; where nothing is
\* clamped the margin changes by exactly that delta.
C26_MotionAppliesDeltaFromTracked ==
    [][\A p \in PointerPositions :
          (is_dragging /\ PointerMotion(p)) =>
              LET dx == WholePixels(p[1] - start_x)
                  dy == WholePixels(p[2] - start_y)
                  max_x == IF output_width > width
                           THEN output_width - width ELSE 0
                  max_y == IF output_height > height
                           THEN output_height - height ELSE 0
              IN  /\ margin_x' = Clamp0(margin_x + dx, max_x)
                  /\ margin_y' = Clamp0(margin_y + dy, max_y)
                  /\ start_x' = p[1]
                  /\ start_y' = p[2]
                  /\ (0 <= margin_x + dx /\ margin_x + dx <= max_x)
                        => margin_x' - margin_x = dx]_vars

\* Two motions of one drag: the second one moved the overlay back by the
\* whole pixels between the two positions, not by the distance to the
\* press position.
C26_Witness ==
    /\ is_dragging
    /\ Len(margin_log.data) = 2
    /\ margin_log.data[1].x = Some(DefaultMargin + 10)
    /\ margin_log.data[2].x = Some(DefaultMargin)
    /\ margin_x = DefaultMargin
    /\ start_x = 0

\* is_dragging changes only at a press or a release of the left button, and
\* is false after a release.
DragOnlyBetweenPressAndRelease ==
    /\ (is_dragging' /\ ~is_dragging) => PointerButton(BTN_LEFT, TRUE)
    /\ (is_dragging /\ ~is_dragging') => PointerButton(BTN_LEFT, FALSE)
    /\ PointerButton(BTN_LEFT, FALSE) => ~is_dragging'

\* Enter and Motion with no drag on, and the other buttons, leave the
\* margins and the position log alone.
NoDragNoMove ==
    (\/ \E p \in PointerPositions :
           ~is_dragging /\ (PointerEnter(p) \/ PointerMotion(p))
     \/ \E pressed \in BOOLEAN : PointerButton(BTN_RIGHT, pressed))
        => UNCHANGED marginVars

\* C27: is_dragging is true only between a left-button press and the
\* following release; Enter and Motion outside that window and other
\* buttons leave the margins and the log unchanged; and the overlay never
\* moves with the pointer while no button is held, also after a Leave and a
\* later Enter.
C27_DragIsTransient ==
    [][/\ DragOnlyBetweenPressAndRelease
       /\ NoDragNoMove
       /\ <<margin_x, margin_y>>' # <<margin_x, margin_y>> => button_held]_vars

\* The parts of C27 about the events the client receives.
C27_SeenEventsOnly == [][DragOnlyBetweenPressAndRelease /\ NoDragNoMove]_vars

\* C28: on every detected text change, with auto-scroll the scroll offset
\* becomes the new max_scroll_offset_y; without it the offset becomes the
\* smaller of the previous offset and the new maximum.
C28_ScrollOnTextChange ==
    [][(UpdateTextFromLog(TRUE) /\ text' # text) =>
          IF auto_scroll
          THEN scroll_offset_y' = max_scroll_offset_y'
          ELSE scroll_offset_y' =
                  IF scroll_offset_y <= max_scroll_offset_y'
                  THEN scroll_offset_y ELSE max_scroll_offset_y']_vars

\* With auto-scroll, a text check that found a new text left the overlay
\* scrolled to the end of a text that does not fit.
C28_Witness ==
    /\ auto_scroll
    /\ requests # <<>>
    /\ requests[1].op = "set_size"
    /\ pc = "running"
    /\ configured
    /\ max_scroll_offset_y > 0
    /\ scroll_offset_y = max_scroll_offset_y

\* The requests draw a buffer showing the scroll offset `scroll` and put it
\* on the surface.
RedrawnAt(rs, scroll, attached, cb) ==
    /\ \E i \in 1..Len(rs) :
          /\ rs[i].op = "create_buffer"
          /\ rs[i].arg[1] = cb
          /\ rs[i].arg[4][2] = scroll
    /\ cb # 0
    /\ attached = cb

\* C29: a vertical axis event with value v sets scroll_offset_y to
\* clamp(scroll_offset_y + v / scroll_speed, 0, max_scroll_offset_y) and, in
\* the same handler, draws the visible overlay at that offset; an axis event
\* on another axis changes nothing.
C29_AxisScrollsAndRedraws ==
    [][\A e \in AxisEvents :
          PointerAxis(e[1], e[2], TRUE) =>
              IF e[1]
              THEN /\ scroll_offset_y' =
                        Clamp0(scroll_offset_y + e[2] \div ConfigScrollSpeed,
                               max_scroll_offset_y)
                   /\ (surface /\ visible) =>
                          RedrawnAt(requests', scroll_offset_y',
                                    srv_attached', current_buffer')
              ELSE UNCHANGED vars]_vars

\* An axis event scrolled the overlay to an offset inside the range and the
\* buffer on the surface shows that offset.
C29_Witness ==
    /\ ~auto_scroll
    /\ visible
    /\ 0 < scroll_offset_y
    /\ scroll_offset_y < max_scroll_offset_y
    /\ RedrawnAt(requests, scroll_offset_y, srv_attached, current_buffer)

(***************************************************************************)
(* The workspace check against a .aerogel_workspace file that is at times  *)
(* missing, empty, not a number, 0 or the id already shown.                *)
(***************************************************************************)
InitWorkspace ==
    /\ Init
    /\ margin_log = Missing
    /\ auto_scroll = FALSE
    /\ text_files[1] = File(DocLong)
    /\ text_files[2] = File(DocOther)

NextWorkspace ==
    \/ Startup
    \/ CheckForWorkspaceSwitch(TRUE)
    \/ UpdateTextFromLog(TRUE)
    \/ Configure(300, 200, TRUE)
    \/ \E value \in {-30, 30} : PointerAxis(TRUE, value, TRUE)
    \/ KeyboardKey(KEY_ESC, TRUE, TRUE)
    \/ \E content \in WorkspaceFileInputs : WriteWorkspaceFile(content)

SpecWorkspace == InitWorkspace /\ [][NextWorkspace]_vars

\* The file is missing, empty or blank, holds something that is not a
\* number, holds 0, or holds the id `current`.
NamesNoOtherWorkspace(file, current) ==
    \/ file = Missing
    \/ file \in {File(<<>>), File(<<" ", NL>>)}
    \/ file \in {File(<<"x">>), File(<<"-", "1">>)}
    \/ file = File(<<"0">>)
    \/ file \in {File(FormatNat(current)), File(FormatNat(current) \o <<NL>>)}

\* C30: check_for_workspace_switch changes nothing and forces no redraw
\* when .aerogel_workspace is missing, empty, unparsable, holds 0 or holds
\* the current workspace id.
C30_NoSwitchChangesNothing ==
    [][(/\ CheckForWorkspaceSwitch(TRUE)
        /\ NamesNoOtherWorkspace(ws_file, current_workspace))
          => UNCHANGED vars]_vars

\* Workspace 2 is shown, scrolled, and the file has come to hold 0.
C30_Witness ==
    /\ pc = "running"
    /\ current_workspace = 2
    /\ scroll_offset_y > 0
    /\ ws_file = File(<<"0">>)

\* The buffers the requests of the last handler drew: what each shows.
DrawnBuffers == {requests[i].arg[4] :
                    i \in {j \in 1..Len(requests) :
                              requests[j].op = "create_buffer"}}

\* C31: no buffer is drawn that pairs the workspace chip of id N with a text
\* loaded from another workspace's text file; in particular the redraw a
\* workspace switch forces shows the new workspace's text.  (The text files
\* of SpecWorkspace never change and differ from workspace to workspace, so
\* the text tells which file it was loaded from.)
C31_ChipMatchesText ==
    \A shown \in DrawnBuffers :
        shown[1] = LoadTextOrDefault(TextFile(text_files, shown[3]))

\* The characters of a sequence of ranges or tokens, in order, each with
\* the style of the range or token that holds it.
StyledChars(segments) ==
    Flatten([i \in 1..Len(segments) |->
                [j \in 1..Len(segments[i].text) |->
                    <<segments[i].style, segments[i].text[j]>>]])

\* A text without the newline and carriage-return characters at its end.
RECURSIVE StripLineEnd(_)
StripLineEnd(s) ==
    IF s # <<>> /\ s[Len(s)] \in {NL, "\r"}
    THEN StripLineEnd(SubSeq(s, 1, Len(s) - 1))
    ELSE s

\* C36: the tokens of the wrapped lines, concatenated in order, are the
\* ranges concatenated with each range's trailing newline and
\* carriage-return characters removed: no character is dropped, duplicated
\* or reordered, and each keeps the style of its range.
C36_WrapPreservesContent ==
    Returned("wrap_line_with_syntax") =>
        StyledChars(Flatten(Unwrap(call.result))) =
            StyledChars([i \in 1..Len(call.args[1]) |->
                            Styled(call.args[1][i].style,
                                   StripLineEnd(call.args[1][i].text))])

\* Two ranges, the second ending in "\r\n", were wrapped onto three lines
\* at a whitespace run.
C36_Witness ==
    /\ Returned("wrap_line_with_syntax")
    /\ Len(call.args[1]) = 2
    /\ call.args[1][1].text = <<"a", " ", "a", "a", "a">>
    /\ call.args[1][2].text = <<"b", "\r", NL>>
    /\ Len(Unwrap(call.result)) = 3

\* The text drawn by the call fits the buffer whole, from its top.
NothingClipped ==
    /\ call.args[4] = 0
    /\ calculate_text_height(call.args[1], call.args[2]) <= call.args[3]

\* C35: calculate_text_height is 40 + the sum over the blocks of (block
\* height + 15) + 20, a block's height being the ascent plus one line height
\* per wrapped line the renderer lays out for it; and the cursor render_text
\* reaches after the last block, at scroll offset 0 with nothing clipped, is
\* that sum without the final 20.
C35_HeightAgreesWithRenderer ==
    (Returned("render_text") /\ NothingClipped) =>
        LET r == Unwrap(call.result)
            h == calculate_text_height(call.args[1], call.args[2])
        IN  /\ Len(r.lines) = Len(parse_markdown(call.args[1]))
            /\ h = 40 + SumSeq([i \in 1..Len(r.lines) |->
                                   (FontAscent + r.lines[i] * LineHeight) + 15])
                     + 20
            /\ r.y_cursor = h - 20

\* A text with a code block whose line wraps in the code column but not in
\* the text column was laid out whole.
C35_Witness ==
    /\ Returned("render_text")
    /\ NothingClipped
    /\ call.args[2] = 91
    /\ \E i \in 1..Len(parse_markdown(call.args[1])) :
          /\ parse_markdown(call.args[1])[i].kind = "Code"
          /\ Unwrap(call.result).lines[i] = 2

\* C34: after load_margins_from_log has rewritten margin.log, a start with
\* no drag in between seeds the same margins as the start before it, also
\* when the log held malformed "Dragging:" lines after the last valid one.
C34_CompactionKeepsPosition ==
    Returned("load_margins_from_log") =>
        \A i \in 1..Len(call.args[2]) :
            call.args[2][i] = Unwrap(call.result).margins

(***************************************************************************)
(* The poll loop over many iterations, with one text file written now and  *)
(* then.                                                                   *)
(***************************************************************************)
InitLoop == InitBuffer

NextLoop ==
    \/ Startup
    \/ PollLoopTail
    \/ UpdateTextFromLog(TRUE)
    \/ \E content \in {File(DocShort), File(DocLong)} :
          WriteTextFile(1, content)

SpecLoop == InitLoop /\ [][NextLoop]_vars

\* C32: the keepalive roundtrip runs once every 100 iterations of the poll
\* loop; every other iteration makes no roundtrip, so does not wait for the
\* compositor.
C32_KeepaliveIsPeriodic ==
    [][PollLoopTail =>
          (roundtrips' # roundtrips <=> iteration % 100 = 0)]_vars

(***************************************************************************)
(* The event handler.  It has written "1" to .aerogel_workspace, emptied   *)
(* .tmp1 and started the overlay (event_handler.rs:269-281).               *)
(***************************************************************************)
InitHandler ==
    /\ Init
    /\ margin_log = Missing
    /\ auto_scroll = FALSE
    /\ ws_file = File(<<"1">>)
    /\ text_files[1] = File(<<>>)
    /\ text_files[2] = Missing

\* The key listener appends to .event while the handler reads it.
NextEventLog ==
    \/ \E token \in {"a", "b", ""} : AppendEvent(token)
    \/ ReadMetadata
    \/ ReadToString
    \/ ProcessLine("ok")

SpecEventLog == InitHandler /\ [][NextEventLog]_vars

\* C37: under any interleaving of appends to .event with calls of
\* read_new_content, no appended line is skipped or returned twice (what has
\* been returned is the file up to some line) and file_pos is the amount
\* already returned.
C37_EachLineDeliveredOnce ==
    /\ Len(delivered) <= Len(event_log)
    /\ delivered = SubSeq(event_log, 1, Len(delivered))
    /\ reader.pc = "idle" => file_pos = Len(delivered)

(***************************************************************************)
(* The event handler and the workspace keys: the switch modifier, digits   *)
(* for workspace 0, the current one and another one, and a key that is no  *)
(* digit; any write of a switch may fail.                                  *)
(***************************************************************************)
SwitchTokens == {"[SuperL]", "0", "1", "2", "a"}

NextSwitch ==
    \/ \E token \in SwitchTokens : AppendEvent(token)
    \/ ReadMetadata
    \/ ReadToString
    \/ \E io \in IoOutcomes : ProcessLine(io)

SpecSwitch == InitHandler /\ [][NextSwitch]_vars

\* C38: whenever the event handler processes a token, ai_process_senders
\* holds an entry for current_workspace, after any sequence of workspace
\* switches, so the sender lookup never fails; and no workspace gets more
\* than one AI manager task.
C38_SenderForCurrentWorkspace ==
    /\ [](\A n \in HandlerWorkspaces : ai_managers[n] <= 1)
    /\ [][(\E io \in IoOutcomes : ProcessLine(io)) /\ Head(reader.lines) # ""
             => eh_current_workspace \in ai_process_senders]_vars

\* The handler has gone to workspace 2 and come back to workspace 1, and
\* has processed every line of .event.
C38_Witness ==
    /\ eh_running
    /\ eh_current_workspace = 1
    /\ ai_process_senders = {1, 2}
    /\ ai_managers[2] = 1
    /\ event_log = <<"[SuperL]", "2", "[SuperL]", "1">>
    /\ delivered = event_log
    /\ reader.lines = <<>>

(***************************************************************************)
(* The event handler while the user records a text, key by key, and the AI *)
(* manager of workspace 1 answers.                                         *)
(***************************************************************************)
RecordingTokens ==
    {"[CtrlL]", "[ShiftL]", "[SuperL]", "t", "c", "[Enter]", "a", "2",
     "[Space]", "[Backspace]", "[Tab]"}

NextRecording ==
    \/ \E token \in RecordingTokens : TypeKey(token)
    \/ ReadMetadata
    \/ ReadToString
    \/ \E io \in {"ok", "text_log_fails"} : ProcessLine(io)
    \/ AiAppend(1)

SpecRecording == InitHandler /\ [][NextRecording]_vars

\* C39: what the event handler writes to .tmp2 comes from .tmp2's earlier
\* content and from keys typed while workspace 2 was current; a recording
\* started on workspace 1 and continued on workspace 2 does not write the
\* snapshot of .tmp1 to .tmp2.  (Here only .tmp1 ever receives a "b", from
\* its AI manager, and no key of the model types one.)
C39_WorkspaceIsolation ==
    \A i \in 1..Len(text_files[2].data) : text_files[2].data[i] # "b"

\* The hotkey combos of the configuration (event_handler.rs:407-515).
HotkeyBindings ==
    {TakeScreenshotBinding, TypeTextBinding, ShowHideBinding, ClearBinding,
     SolveBinding}

\* The lines the event loop has processed, in order.
ProcessedTokens ==
    SubSeq(delivered, 1, Len(delivered) - Len(reader.lines))

\* A key applied to a recorded text: a printable token is appended, [Space]
\* appends a space, [Backspace] removes the last character, any other
\* bracketed token is ignored.
AppliedKey(buffer, token) ==
    CASE token = "[Space]" -> Append(buffer, " ")
      [] token = "[Backspace]" ->
            IF buffer = <<>> THEN <<>>
            ELSE SubSeq(buffer, 1, Len(buffer) - 1)
      [] token \in BracketedTokens -> buffer
      [] OTHER -> Append(buffer, token)

\* The recorded text after one more token: a modifier is held; a key that
\* completes a hotkey (or the digit of a workspace switch) has the hotkey's
\* effect on the recording and is left out; every other key is applied.
RecordedAfter(e, token) ==
    LET combo == Append(ComboParts(e.modifiers), FinalKey(token))
        released == [e EXCEPT !.modifiers = <<>>, !.waiting = FALSE]
    IN  IF e.waiting /\ IsDigitToken(token) THEN released
        ELSE IF token \in ModifierTokens
        THEN [e EXCEPT !.modifiers = Append(@, token),
                       !.waiting = (get_canonical_modifier(token)
                                        = SwitchToWorkspaceBinding)]
        ELSE IF e.modifiers # <<>> /\ combo \in HotkeyBindings
        THEN CASE combo = TypeTextBinding /\ ~e.recording ->
                      [released EXCEPT !.recording = TRUE, !.buffer = <<>>]
               [] combo = ClearBinding -> [released EXCEPT !.buffer = <<>>]
               [] combo = SolveBinding ->
                      [released EXCEPT !.recording = FALSE, !.buffer = <<>>]
               [] OTHER -> released
        ELSE IF e.recording
        THEN [released EXCEPT !.buffer = AppliedKey(@, token)]
        ELSE released

RECURSIVE Recorded(_)
Recorded(tokens) ==
    IF tokens = <<>>
    THEN [recording |-> FALSE, buffer |-> <<>>, modifiers |-> <<>>,
          waiting |-> FALSE]
    ELSE RecordedAfter(Recorded(SubSeq(tokens, 1, Len(tokens) - 1)),
                       tokens[Len(tokens)])

\* C40: while the handler records, key_buffer is what the key tokens
\* received since recording started give when applied in order, without the
\* tokens that completed a hotkey; a key that follows a modifier and
\* completes no hotkey is among those applied.
C40_KeyBufferHoldsEveryKey ==
    eh_running /\ in_recording_mode
        => key_buffer = Recorded(ProcessedTokens).buffer

(***************************************************************************)
(* The overlay's poll while the event handler rewrites the text file of    *)
(* the current workspace.                                                  *)
(***************************************************************************)
WrittenSnapshots == {DocShort, DocLong}

InitWriter == InitBuffer

NextWriter ==
    \/ Startup
    \/ \E ok \in BOOLEAN : UpdateTextFromLog(ok)
    \/ \E content \in WrittenSnapshots : OverwriteTruncate(1, content)
    \/ OverwriteWrite
    \/ \E ok \in BOOLEAN : PointerAxis(TRUE, 30, ok)
    \/ \E sz \in ConfigureSizes, ok \in BOOLEAN : Configure(sz[1], sz[2], ok)

SpecWriter == InitWriter /\ [][NextWriter]_vars

\* C33: whatever the interleaving of the writer's truncate and write with
\* the overlay's poll, the text the overlay has adopted is one of the
\* snapshots the writer wrote, never the help listing.
C33_OverlayAdoptsWholeSnapshots ==
    pc = "running" => text \in WrittenSnapshots

=============================================================================
